---- MODULE Spec2Model ----
(***************************************************************************)
(* Model of the custom-dictionary overlay of elephant-spell: the per       *)
(* language Spellcheck (two tries plus the hunspell checker), the pattern  *)
(* expander and the phrase iterator.                                       *)
(*                                                                         *)
(* Strings are sequences of one-character strings, so that byte level      *)
(* operations of the code (strings.Replacer, strings.Split, the word       *)
(* segmenter) are computed the way the code computes them.                 *)
(***************************************************************************)
EXTENDS Integers, Sequences, FiniteSets, Bags, TLC

VARIABLES
    trie,         \* Spellcheck.trie: valid surface -> *Phrase
    mistakeTrie,  \* Spellcheck.mistakeTrie: mistaken surface -> *Phrase
    hunspell,     \* the words the hunspell handle currently accepts
    added,        \* history: text -> the Phrase most recently passed to AddPhrase
    runtimeWords, \* history: the words passed to Checker.Add and not to Checker.Remove since
    nOps,         \* number of calls made so far
    last          \* the most recent call, its arguments and its result

\* The overlay store and the tasks of Application.Run
VARIABLES
    rows,         \* table entry, committed: <<language, entry>> -> row
    txs,          \* open SetEntry/DeleteEntry calls: id -> transaction
    calls,        \* history: id -> the outcome of a finished call
    nWrites,      \* number of SetEntry/DeleteEntry calls started
    listener,     \* position of runListener
    connQueue,    \* notifications delivered to the LISTEN connection, unread
    received,     \* the unbuffered channel `received`: <<>> or <<n>>
    sending,      \* what the second goroutine is sending on a.entryUpdates: <<>> or <<n>>
    entryUpdates, \* a.entryUpdates
    handling,     \* the notification the updater has received and is handling: <<>> or <<n>>
    updater,      \* position of the entry_updater task
    updOffset,    \* preloadEntries: offset of the next page
    phrases,      \* a.phrases: language -> trie of *phrase
    checkers,     \* a.checkers: language -> words the checker accepts
    rowLog,       \* history: the calls in the order their row change became visible
    applied       \* history: the calls in the order their notification was handled

\* A call of Expand
VARIABLES
    template,     \* the input string
    expanded      \* <<>> before the call, <<result>> after it

\* One value returned by PhraseIterator and the loops ranging over it
VARIABLES
    itText,       \* the text, as far as it has been read: its tokens
    itEOF,        \* the text ends where itText ends
    itPos,        \* number of tokens the segmenter has produced
    itRing,       \* window and start
    itPc,         \* "idle", "running" (inside a range loop) or "done"
    itRuns,       \* number of range loops started over the value
    itYielded     \* history: every call of yield, with what the consumer returned

\* The table entry as the read RPCs of the dictionary service see it
VARIABLES
    stored,       \* the rows, in the order the store returns them
    readRes       \* the GetEntry or ListEntries call made on the table as it is

\* The tasks of Application.Run and their contexts
VARIABLES
    rootDone,     \* ctx of Run is cancelled
    grpDone,      \* ctx of the tasks (grp of Run) is cancelled
    gDone,        \* a goroutine of runListener has returned its error
    pending,      \* notifications the connection holds for WaitForNotification
    nNotified,    \* notifications committed so far
    lst,          \* runListener: "start", "waiting" (in grp.Wait) or "returned"
    g1,           \* first goroutine: "wait", "send" (at received <-) or "done"
    g2,           \* second goroutine: "select", "send" (at a.entryUpdates <-) or "done"
    queued,       \* a.entryUpdates, oldest first
    g1Got,        \* `notification` of the first goroutine (0: none)
    g2Got,        \* `n` of the second goroutine (0: none)
    handled,      \* history: the notifications handleEntryUpdate was called with
    closed,       \* a.entryUpdates is closed
    upd           \* entry_updater: "preload", "select", "handle" (in handleEntryUpdate) or "done"

\* The preload pass over a table of many rows
VARIABLES
    plTable,      \* the rows of table entry, in the order they were stored
    plPc,         \* "store" (not started), "loading", "done" or "failed"
    plOffset,     \* offset of the next page
    plState,      \* a.phrases and a.checkers
    plReturned    \* history: the rows the pages returned, in order

\* The locks of one Spellcheck and the calls that take them
VARIABLES
    lkAt,         \* for each goroutine, the place its call is at and the
                  \* calls of the Checker it has yet to make
    lkM,          \* s.m: the goroutines that hold it as readers and as writer,
                  \* the writer that has announced itself and waits for the
                  \* readers (pending), and the readers it blocks
    lkCM,         \* c.m of the Checker: the goroutine that holds it
    lkBufs        \* the goroutines that have acquired a buffer of s.bufs

\* The residue buffers of one Spellcheck
VARIABLES
    bufs,         \* s.bufs: the buffers acquired and the buffers idle
    bufQueue,     \* the Check calls waiting in s.bufs.Acquire, in order
    holding,      \* the Check calls holding a buffer: the bag of their texts
    chk,          \* the Check calls waiting in Acquire: the text of each
    nChecks,      \* number of Check calls made
    lastCheck     \* the Check call that returned last

\* One hunspell Checker used by several goroutines at once
VARIABLES
    handle,       \* the words the native handle accepts
    cmx,          \* c.m: the goroutine holding it
    hth           \* each goroutine: its call and its position in it

\* One Spellcheck used by several goroutines at once
VARIABLES
    shared,       \* trie, mistakeTrie and hunspell of the Spellcheck
    committed,    \* history: shared before and after the writer holding s.m
    rwm,          \* s.m: the goroutines holding it as readers and as writer,
                  \* the writer that has announced itself and waits for the
                  \* readers (pending), and the readers it blocks
    th            \* each goroutine: its call, its position in it, its locals

spellVars == <<trie, mistakeTrie, hunspell, added, runtimeWords, nOps, last>>

syncVars == <<rows, txs, calls, nWrites, listener, connQueue, received, sending,
              entryUpdates, handling, updater, updOffset, phrases, checkers, rowLog,
              applied>>

expandVars == <<template, expanded>>

iterVars == <<itText, itEOF, itPos, itRing, itPc, itRuns, itYielded>>

readVars == <<stored, readRes>>

runVars == <<rootDone, grpDone, gDone, pending, nNotified, lst, g1, g2, queued,
             closed, upd, g1Got, g2Got, handled>>

concVars == <<shared, committed, rwm, th>>

hunVars == <<handle, cmx, hth>>

poolVars == <<bufs, bufQueue, holding, chk, nChecks, lastCheck>>

preloadVars == <<plTable, plPc, plOffset, plState, plReturned>>

lockVars == <<lkAt, lkM, lkCM, lkBufs>>

vars == <<spellVars, syncVars, expandVars, iterVars, readVars, runVars, concVars,
          hunVars, poolVars, preloadVars, lockVars>>

\* What the actions of one part leave alone: the variables of the others.
exceptSpell ==
    <<syncVars, expandVars, iterVars, readVars, runVars, concVars, hunVars,
      poolVars, preloadVars, lockVars>>

exceptSync ==
    <<spellVars, expandVars, iterVars, readVars, runVars, concVars, hunVars,
      poolVars, preloadVars, lockVars>>

exceptExpand ==
    <<spellVars, syncVars, iterVars, readVars, runVars, concVars, hunVars,
      poolVars, preloadVars, lockVars>>

exceptIter ==
    <<spellVars, syncVars, expandVars, readVars, runVars, concVars, hunVars,
      poolVars, preloadVars, lockVars>>

exceptRead ==
    <<spellVars, syncVars, expandVars, iterVars, runVars, concVars, hunVars,
      poolVars, preloadVars, lockVars>>

exceptRun ==
    <<spellVars, syncVars, expandVars, iterVars, readVars, concVars, hunVars,
      poolVars, preloadVars, lockVars>>

exceptConc ==
    <<spellVars, syncVars, expandVars, iterVars, readVars, runVars, hunVars,
      poolVars, preloadVars, lockVars>>

exceptHun ==
    <<spellVars, syncVars, expandVars, iterVars, readVars, runVars, concVars,
      poolVars, preloadVars, lockVars>>

exceptPool ==
    <<spellVars, syncVars, expandVars, iterVars, readVars, runVars, concVars,
      hunVars, preloadVars, lockVars>>

exceptPreload ==
    <<spellVars, syncVars, expandVars, iterVars, readVars, runVars, concVars,
      hunVars, poolVars, lockVars>>

exceptLock ==
    <<spellVars, syncVars, expandVars, iterVars, readVars, runVars, concVars,
      hunVars, poolVars, preloadVars>>

----------------------------------------------------------------------------
(* Bounds and program constants *)

\* Longest sequence of calls explored.
MaxOps == 3

\* Check: PhraseIterator(textData, 3)
PhraseLength == 3

\* PhraseIterator: window := make([]token, 0, phraseLength*4)
WindowFactor == 4

----------------------------------------------------------------------------
(* Strings *)

Letters == {"a", "b"}

Min(S) == CHOOSE x \in S : \A y \in S : x <= y

\* strings.Contains(s, c) for a single character c
ContainsChar(s, c) == \E i \in 1..Len(s) : s[i] = c

\* strings.HasPrefix(s[i:], k), with i a 1-based position
HasPrefixAt(s, i, k) ==
    /\ i + Len(k) - 1 <= Len(s)
    /\ \A j \in 1..Len(k) : s[i + j - 1] = k[j]

\* slices.Contains
SeqContains(seq, x) == \E i \in 1..Len(seq) : seq[i] = x

Range(seq) == {seq[i] : i \in 1..Len(seq)}

RECURSIVE Flatten(_)
Flatten(seqs) ==
    IF seqs = <<>> THEN <<>> ELSE Head(seqs) \o Flatten(Tail(seqs))

----------------------------------------------------------------------------
(* Pattern expander *)

\* strings.Split(content, "|"): always at least one piece
RECURSIVE SplitBar(_, _, _)
SplitBar(content, i, cur) ==
    IF i > Len(content) THEN <<cur>>
    ELSE IF content[i] = "|" THEN <<cur>> \o SplitBar(content, i + 1, <<>>)
    ELSE SplitBar(content, i + 1, Append(cur, content[i]))

\* Mutant of ExpandParse: an opening brace inside an open group is taken
\* as the start of a new group instead of being rejected.
RECURSIVE ExpandParse_NestingAccepted(_, _, _, _, _)
ExpandParse_NestingAccepted(input, i, parts, buffer, inBrace) ==
    IF i > Len(input) THEN
        IF inBrace THEN [err |-> TRUE, parts |-> <<>>]
        ELSE [err |-> FALSE,
              parts |-> IF Len(buffer) > 0 THEN Append(parts, <<buffer>>) ELSE parts]
    ELSE IF input[i] = "{" THEN
        ExpandParse_NestingAccepted(input, i + 1,
            IF Len(buffer) > 0 THEN Append(parts, <<buffer>>) ELSE parts,
            <<>>, TRUE)
    ELSE IF input[i] = "}" THEN
        IF ~inBrace THEN [err |-> TRUE, parts |-> <<>>]
        ELSE ExpandParse_NestingAccepted(input, i + 1,
                 Append(parts, SplitBar(buffer, 1, <<>>)), <<>>, FALSE)
    ELSE ExpandParse_NestingAccepted(input, i + 1, parts,
                                     Append(buffer, input[i]), inBrace)

\* The parsing loop of Expand and the two checks that follow it.
RECURSIVE ExpandParse(_, _, _, _, _)
ExpandParse(input, i, parts, buffer, inBrace) ==
    IF i > Len(input) THEN
        IF inBrace THEN [err |-> TRUE, parts |-> <<>>]
        ELSE [err |-> FALSE,
              parts |-> IF Len(buffer) > 0 THEN Append(parts, <<buffer>>) ELSE parts]
    ELSE IF input[i] = "{" THEN
        IF inBrace THEN [err |-> TRUE, parts |-> <<>>]
        ELSE ExpandParse(input, i + 1,
                 IF Len(buffer) > 0 THEN Append(parts, <<buffer>>) ELSE parts,
                 <<>>, TRUE)
    ELSE IF input[i] = "}" THEN
        IF ~inBrace THEN [err |-> TRUE, parts |-> <<>>]
        ELSE ExpandParse(input, i + 1,
                 Append(parts, SplitBar(buffer, 1, <<>>)), <<>>, FALSE)
    ELSE ExpandParse(input, i + 1, parts, Append(buffer, input[i]), inBrace)

\* Mutant of ExpandStep: the two loops are swapped, every option with every
\* prefix.
ExpandStep_OptionMajor(results, part) ==
    Flatten([o \in 1..Len(part) |->
                [r \in 1..Len(results) |-> results[r] \o part[o]]])

\* One round of "Generate combinations": every prefix with every option.
ExpandStep(results, part) ==
    Flatten([r \in 1..Len(results) |->
                [o \in 1..Len(part) |-> results[r] \o part[o]]])

RECURSIVE ExpandCombine(_, _)
ExpandCombine(results, parts) ==
    IF parts = <<>> THEN results
    ELSE ExpandCombine(ExpandStep(results, Head(parts)), Tail(parts))

\* Expand(input) ([]string, error)
Expand(input) ==
    LET parsed == ExpandParse(input, 1, <<>>, <<>>, FALSE) IN
    IF parsed.err THEN [err |-> TRUE, lits |-> <<>>]
    ELSE IF Len(parsed.parts) = 0 THEN [err |-> FALSE, lits |-> << <<>> >>]
    ELSE [err |-> FALSE, lits |-> ExpandCombine(<< <<>> >>, parsed.parts)]

----------------------------------------------------------------------------
(* Word segmenter and phrase iterator *)

\* segment.NewWordSegmenter over the model alphabet: a maximal run of
\* letters is one Letter token, every other character is a token of its own.
RECURSIVE Segment(_, _, _)
Segment(text, i, cur) ==
    LET flush == IF cur = <<>> THEN <<>> ELSE <<[Text |-> cur, Type |-> "Letter"]>> IN
    IF i > Len(text) THEN flush
    ELSE IF text[i] \in Letters THEN Segment(text, i + 1, Append(cur, text[i]))
    ELSE flush \o <<[Text |-> <<text[i]>>, Type |-> "None"]>> \o Segment(text, i + 1, <<>>)

Tokens(text) == Segment(text, 1, <<>>)

\* Mutant of WindowPush: the full buffer is overwritten at start, and start
\* is left where it is.
WindowPush_StartKept(w, t, capacity) ==
    IF Len(w.window) < capacity
    THEN [window |-> Append(w.window, t), start |-> w.start]
    ELSE [window |-> [w.window EXCEPT ![w.start + 1] = t],
          start |-> w.start]

\* "Add the token to the circular buffer"; start is the 0-based Go index.
WindowPush(w, t, capacity) ==
    IF Len(w.window) < capacity
    THEN [window |-> Append(w.window, t), start |-> w.start]
    ELSE [window |-> [w.window EXCEPT ![w.start + 1] = t],
          start |-> (w.start + 1) % capacity]

\* "Fill the word index slice": 0-based indexes of Letter tokens, newest first.
RECURSIVE FillWords(_, _, _, _)
FillWords(w, i, words, phraseLength) ==
    IF i < 0 \/ Len(words) >= phraseLength THEN words
    ELSE LET idx == (w.start + i) % Len(w.window) IN
         FillWords(w, i - 1,
                   IF w.window[idx + 1].Type = "Letter" THEN Append(words, idx) ELSE words,
                   phraseLength)

\* Mutant of PhraseAt: the length is ei - si + 1 also when the sequence
\* lies across the end of the buffer.
PhraseAt_LengthUnwrapped(w, words, i) ==
    LET si == words[i]
        ei == words[1]
        l  == ei - si + 1
    IN Flatten([j \in 1..l |-> w.window[((si + j - 1) % Len(w.window)) + 1].Text])

\* The sequence written to buf for words[i]: tokens si..ei of the ring.
PhraseAt(w, words, i) ==
    LET si == words[i]
        ei == words[1]
        l  == IF ei >= si THEN ei - si + 1 ELSE ei + Len(w.window) - si + 1
    IN Flatten([j \in 1..l |-> w.window[((si + j - 1) % Len(w.window)) + 1].Text])

\* The phrases yielded when token t is read into ring w.
YieldsAt(w, phraseLength) ==
    LET words == FillWords(w, Len(w.window) - 1, <<>>, phraseLength)
    IN [i \in 1..Len(words) |-> PhraseAt(w, words, i)]

RECURSIVE IterateFrom(_, _, _, _)
IterateFrom(toks, k, w, phraseLength) ==
    IF k > Len(toks) THEN <<>>
    ELSE LET w2 == WindowPush(w, toks[k], phraseLength * WindowFactor) IN
         IF toks[k].Type # "Letter" THEN IterateFrom(toks, k + 1, w2, phraseLength)
         ELSE YieldsAt(w2, phraseLength) \o IterateFrom(toks, k + 1, w2, phraseLength)

\* PhraseIterator(text, phraseLength), consumed to the end: every phrase
\* yielded, in order.
PhraseIterator(text, phraseLength) ==
    IterateFrom(Tokens(text), 1, [window |-> <<>>, start |-> 0], phraseLength)

----------------------------------------------------------------------------
(* The hunspell checker.  The handle is a native library; the model keeps   *)
(* the set of words it accepts: Hunspell_add makes a word accepted,         *)
(* Hunspell_remove makes it rejected (also when it came from the .dic       *)
(* file), Hunspell_spell tests it.                                          *)

\* Words of the dictionary files the handle is created from.
BaseDictionary == {<<"a">>}

\* The order in which the library proposes words.
SuggestCandidates == << <<"a">>, <<"b">>, <<"a", "a">>, <<"a", "b">>, <<"b", "a">> >>

\* Checker.Add, for each of the words
HunspellAdd(h, words) == h \cup words

\* Checker.Remove, for each of the words
HunspellRemove(h, words) == h \ words

\* The affix rules of the dictionary files: an inflected form and the word of
\* the .dic file it is built from.
AffixRoot == [w \in {<<"c", "s">>} |-> <<"c">>]

\* The inflected forms whose root the handle accepts
Inflected(h) == {w \in DOMAIN AffixRoot : AffixRoot[w] \in h}

\* Checker.Spell
HunspellSpell(h, word) == word \in h \/ word \in Inflected(h)

\* Checker.Suggest: the accepted words near the word (here: with its first
\* character), in the library's order
HunspellSuggest(h, word) ==
    SelectSeq(SuggestCandidates,
              LAMBDA c : c \in h /\ Len(word) > 0 /\ c[1] = word[1])

----------------------------------------------------------------------------
(* The tries (dghubble/trie RuneTrie): a finite map from keys to *Phrase *)

EmptyTrie == <<>>

TrieHas(t, key) == key \in DOMAIN t

TriePutAll(t, keys, v) ==
    [k \in (DOMAIN t) \cup keys |-> IF k \in keys THEN v ELSE t[k]]

TriePut(t, key, v) == TriePutAll(t, {key}, v)

TrieDeleteAll(t, keys) == [k \in (DOMAIN t) \ keys |-> t[k]]

TrieDelete(t, key) == TrieDeleteAll(t, {key})

----------------------------------------------------------------------------
(* Spellcheck *)

FormKeys(p) == DOMAIN p.Forms

FormValues(p) == {p.Forms[f] : f \in DOMAIN p.Forms}

\* Mutant of ExpandMistakes: the first template that fails to expand ends
\* the loop.
ExpandMistakes_StopAtError(templates) ==
    LET bad == {i \in 1..Len(templates) : Expand(templates[i]).err}
        n   == IF bad = {} THEN Len(templates) ELSE Min(bad) - 1
    IN Flatten([i \in 1..n |-> Expand(templates[i]).lits])

\* "Expand the common mistakes to get all permutations": templates that
\* fail to expand are skipped, the rest are flattened in order.
ExpandMistakes(templates) ==
    Flatten([i \in 1..Len(templates) |->
                IF Expand(templates[i]).err THEN <<>> ELSE Expand(templates[i]).lits])

\* The Phrase that &p points to once AddPhrase has returned.
Installed(p) == [p EXCEPT !.CommonMistakes = ExpandMistakes(p.CommonMistakes)]

\* AddPhrase, lines 60-72: the keys of the Phrase found at p.Text are removed.
RemoveOld(st, text) ==
    IF TrieHas(st.trie, text) THEN
        LET old == st.trie[text] IN
        [trie        |-> TrieDeleteAll(st.trie, FormValues(old)),
         hunspell    |-> HunspellRemove(st.hunspell, FormValues(old)),
         mistakeTrie |-> TrieDeleteAll(st.mistakeTrie,
                                       Range(old.CommonMistakes) \cup FormKeys(old))]
    ELSE st

\* Mutant of AddPhraseF: the mistake trie is filled from the templates as
\* given instead of from their expansions.
AddPhraseF_RawTemplates(st, p) ==
    LET s1 == RemoveOld(st, p.Text)
        q  == Installed(p)
    IN [trie        |-> TriePutAll(s1.trie, {p.Text} \cup FormValues(p), q),
        hunspell    |-> HunspellAdd(s1.hunspell, {p.Text} \cup FormValues(p)),
        mistakeTrie |-> TriePutAll(s1.mistakeTrie,
                                   Range(p.CommonMistakes) \cup FormKeys(p), q)]

\* Mutant of AddPhraseF: the correct forms are put in the trie but not added
\* to the checker.
AddPhraseF_FormsNotAdded(st, p) ==
    LET s1 == RemoveOld(st, p.Text)
        q  == Installed(p)
    IN [trie        |-> TriePutAll(s1.trie, {p.Text} \cup FormValues(p), q),
        hunspell    |-> HunspellAdd(s1.hunspell, {p.Text}),
        mistakeTrie |-> TriePutAll(s1.mistakeTrie,
                                   Range(q.CommonMistakes) \cup FormKeys(p), q)]

\* Spellcheck.AddPhrase
AddPhraseF(st, p) ==
    LET s1 == RemoveOld(st, p.Text)
        q  == Installed(p)
    IN [trie        |-> TriePutAll(s1.trie, {p.Text} \cup FormValues(p), q),
        hunspell    |-> HunspellAdd(s1.hunspell, {p.Text} \cup FormValues(p)),
        mistakeTrie |-> TriePutAll(s1.mistakeTrie,
                                   Range(q.CommonMistakes) \cup FormKeys(p), q)]

\* Mutant of RemovePhraseF: the text is removed from the checker and from
\* the valid trie before the Phrase is looked up.
RemovePhraseF_RemovesFirst(st, text) ==
    LET s1 == [st EXCEPT !.trie = TrieDeleteAll(@, {text}),
                         !.hunspell = HunspellRemove(@, {text})] IN
    IF ~TrieHas(st.trie, text) THEN s1
    ELSE LET p == st.trie[text] IN
         [trie        |-> TrieDeleteAll(st.trie, {text} \cup FormValues(p)),
          hunspell    |-> HunspellRemove(st.hunspell, {text} \cup FormValues(p)),
          mistakeTrie |-> TrieDeleteAll(st.mistakeTrie,
                                        Range(p.CommonMistakes) \cup FormKeys(p))]

\* Spellcheck.RemovePhrase
RemovePhraseF(st, text) ==
    IF ~TrieHas(st.trie, text) THEN st
    ELSE LET p == st.trie[text] IN
         [trie        |-> TrieDeleteAll(st.trie, {text} \cup FormValues(p)),
          hunspell    |-> HunspellRemove(st.hunspell, {text} \cup FormValues(p)),
          mistakeTrie |-> TrieDeleteAll(st.mistakeTrie,
                                        Range(p.CommonMistakes) \cup FormKeys(p))]

\* entryLevelToRPC
entryLevelToRPC(level) ==
    IF level = "suggestion" THEN "LEVEL_SUGGESTION" ELSE "LEVEL_ERROR"

\* Mutant of OverlaySuggestions: the form suggestion is appended first.
OverlaySuggestions_FormFirst(p, text) ==
    (IF text \in DOMAIN p.Forms
     THEN <<[Text |-> p.Forms[text], Description |-> p.Description]>> ELSE <<>>)
    \o
    (IF SeqContains(p.CommonMistakes, text)
     THEN <<[Text |-> p.Text, Description |-> p.Description]>> ELSE <<>>)

\* The suggestions a Phrase gives for a surface: p.Text when the surface is
\* one of its common mistakes, then the correct form when it is a form.
OverlaySuggestions(p, text) ==
    (IF SeqContains(p.CommonMistakes, text)
     THEN <<[Text |-> p.Text, Description |-> p.Description]>> ELSE <<>>)
    \o
    (IF text \in DOMAIN p.Forms
     THEN <<[Text |-> p.Forms[text], Description |-> p.Description]>> ELSE <<>>)

EntryTexts(entries) == {entries[i].Text : i \in 1..Len(entries)}

\* Mutant of OverlayFrom: a phrase found in the valid trie is recorded and
\* the loop continues without looking it up in the mistake trie.
RECURSIVE OverlayFrom_SkipValid(_, _, _, _, _, _)
OverlayFrom_SkipValid(st, ys, k, entries, replacements, withSuggestions) ==
    IF k > Len(ys) THEN [entries |-> entries, replacements |-> replacements]
    ELSE
      LET text == ys[k] IN
      IF TrieHas(st.trie, text) THEN
          OverlayFrom_SkipValid(st, ys, k + 1, entries,
                                Append(replacements, text), withSuggestions)
      ELSE IF ~TrieHas(st.mistakeTrie, text) \/ text \in EntryTexts(entries) THEN
          OverlayFrom_SkipValid(st, ys, k + 1, entries, replacements, withSuggestions)
      ELSE
          LET p == st.mistakeTrie[text]
              entry == [Text |-> text,
                        Level |-> entryLevelToRPC(p.Level),
                        Suggestions |-> IF withSuggestions
                                        THEN OverlaySuggestions(p, text) ELSE <<>>]
          IN OverlayFrom_SkipValid(st, ys, k + 1, Append(entries, entry),
                                   Append(replacements, text), withSuggestions)

\* Check, lines 145-203: the loop over the phrases of the iterator.
RECURSIVE OverlayFrom(_, _, _, _, _, _)
OverlayFrom(st, ys, k, entries, replacements, withSuggestions) ==
    IF k > Len(ys) THEN [entries |-> entries, replacements |-> replacements]
    ELSE
      LET text == ys[k]
          r1   == IF TrieHas(st.trie, text) THEN Append(replacements, text)
                  ELSE replacements
      IN
      IF ~TrieHas(st.mistakeTrie, text) THEN
          OverlayFrom(st, ys, k + 1, entries, r1, withSuggestions)
      ELSE IF text \in EntryTexts(entries) THEN
          OverlayFrom(st, ys, k + 1, entries, r1, withSuggestions)
      ELSE
          LET p == st.mistakeTrie[text]
              entry == [Text |-> text,
                        Level |-> entryLevelToRPC(p.Level),
                        Suggestions |-> IF withSuggestions
                                        THEN OverlaySuggestions(p, text) ELSE <<>>]
          IN OverlayFrom(st, ys, k + 1, Append(entries, entry),
                         Append(r1, text), withSuggestions)

CheckOverlay(st, text, withSuggestions) ==
    OverlayFrom(st, PhraseIterator(text, PhraseLength), 1, <<>>, <<>>, withSuggestions)

\* strings.NewReplacer(old1, "", old2, "", ...).Replace(s): at each position
\* the earliest listed old string that matches there is cut out.
RECURSIVE ReplaceFrom(_, _, _)
ReplaceFrom(olds, s, i) ==
    IF i > Len(s) THEN <<>>
    ELSE LET m == {j \in 1..Len(olds) : Len(olds[j]) > 0 /\ HasPrefixAt(s, i, olds[j])} IN
         IF m = {} THEN <<s[i]>> \o ReplaceFrom(olds, s, i + 1)
         ELSE ReplaceFrom(olds, s, i + Len(olds[Min(m)]))

\* Check, lines 207-231: what the segmenter of the second pass reads.
Residue(replacements, text) ==
    IF Len(replacements) > 0 THEN ReplaceFrom(replacements, text, 1) ELSE text

\* Check, lines 237-275: the words handed to hunspell, each once.
RECURSIVE BaseFrom(_, _, _, _, _, _)
BaseFrom(st, toks, k, seen, entries, withSuggestions) ==
    IF k > Len(toks) THEN entries
    ELSE IF toks[k].Type # "Letter" \/ toks[k].Text \in seen THEN
        BaseFrom(st, toks, k + 1, seen, entries, withSuggestions)
    ELSE
        LET word == toks[k].Text IN
        IF HunspellSpell(st.hunspell, word) THEN
            BaseFrom(st, toks, k + 1, seen \cup {word}, entries, withSuggestions)
        ELSE
            LET hs == HunspellSuggest(st.hunspell, word)
                entry == [Text |-> word,
                          Level |-> "LEVEL_ERROR",
                          Suggestions |-> IF withSuggestions
                              THEN [i \in 1..Len(hs) |-> [Text |-> hs[i], Description |-> ""]]
                              ELSE <<>>]
            IN BaseFrom(st, toks, k + 1, seen \cup {word},
                        Append(entries, entry), withSuggestions)

\* Mutant of Check: without suggestions the base-checker pass is skipped.
Check_OverlayOnly(st, text, withSuggestions) ==
    IF text = <<>> THEN <<>>
    ELSE LET o == CheckOverlay(st, text, withSuggestions) IN
         IF withSuggestions
         THEN BaseFrom(st, Tokens(Residue(o.replacements, text)), 1, {},
                       o.entries, withSuggestions)
         ELSE o.entries

\* Spellcheck.Check: the entries of the returned Misspelled
Check(st, text, withSuggestions) ==
    IF text = <<>> THEN <<>>
    ELSE LET o == CheckOverlay(st, text, withSuggestions) IN
         BaseFrom(st, Tokens(Residue(o.replacements, text)), 1, {},
                  o.entries, withSuggestions)

\* Mutant of Suggestions: phrases are sent to hunspell as well.
Suggestions_PhrasesToBase(st, text) ==
    (IF TrieHas(st.mistakeTrie, text)
     THEN OverlaySuggestions(st.mistakeTrie[text], text) ELSE <<>>)
    \o
    (IF ~HunspellSpell(st.hunspell, text)
     THEN LET hs == HunspellSuggest(st.hunspell, text)
          IN [i \in 1..Len(hs) |-> [Text |-> hs[i], Description |-> ""]]
     ELSE <<>>)

\* Spellcheck.Suggestions
Suggestions(st, text) ==
    (IF TrieHas(st.mistakeTrie, text)
     THEN OverlaySuggestions(st.mistakeTrie[text], text) ELSE <<>>)
    \o
    (IF ~ContainsChar(text, " ") /\ ~HunspellSpell(st.hunspell, text)
     THEN LET hs == HunspellSuggest(st.hunspell, text)
          IN [i \in 1..Len(hs) |-> [Text |-> hs[i], Description |-> ""]]
     ELSE <<>>)

----------------------------------------------------------------------------
(* Inputs *)

A  == <<"a">>
B  == <<"b">>
AA == <<"a", "a">>
AB == <<"a", "b">>
A_B == <<"a", " ", "b">>
A_A_A_A == <<"a", " ", "a", " ", "a", " ", "a">>
AA_B_ABA == <<"a", "a", " ", "b", " ", "a", "b", "a">>

B_ABAB == <<"b", " ", "a", "b", "a", "b">>

NoForms == <<>>

\* The phrases passed to AddPhrase.  Two of them are each other's mistake
\* (the "fly"/"rymma" pair of TestSpellcheck), texts are re-added with other
\* mistakes and forms, keys are shared between phrases, one template is
\* malformed, one has a brace group and one literal has four words; the
\* last has a malformed template, a template with a group and a form.
PhraseInputs ==
    { [Text |-> A, Description |-> "d1", CommonMistakes |-> <<B>>,
       Level |-> "suggestion", Forms |-> NoForms],
      [Text |-> B, Description |-> "d2", CommonMistakes |-> <<A>>,
       Level |-> "suggestion", Forms |-> NoForms],
      [Text |-> A, Description |-> "d2", CommonMistakes |-> <<AA>>,
       Level |-> "error", Forms |-> NoForms],
      [Text |-> B, Description |-> "d1", CommonMistakes |-> <<A>>,
       Level |-> "error", Forms |-> (A :> AA)],
      [Text |-> AA, Description |-> "d1", CommonMistakes |-> <<A_B>>,
       Level |-> "error", Forms |-> NoForms],
      [Text |-> AA, Description |-> "d2", CommonMistakes |-> <<>>,
       Level |-> "suggestion", Forms |-> (AB :> A)],
      [Text |-> B, Description |-> "d1",
       CommonMistakes |-> << <<"{", "a">>,
                             <<"{", "a", " ", "a", " ", "|", "}", "a", " ", "a">> >>,
       Level |-> "error", Forms |-> NoForms],
      [Text |-> AB, Description |-> "d1",
       CommonMistakes |-> << <<"}">>, <<"b", "{", "a", "|", "b", "}">> >>,
       Level |-> "suggestion", Forms |-> (<<"b", "a", "b">> :> <<"a", "b", "b">>)] }

RemoveTexts == {A, B, AA}

CheckTexts == {<<>>, A, AA, A_B, <<"b", " ", "a">>, A_A_A_A, AA_B_ABA, B_ABAB}

SuggestionTexts == {A, B, AA, AB, A_B}

----------------------------------------------------------------------------
(* The overlay store and the Application that keeps the in-memory phrases   *)
(* of each language in step with it.  The store is PostgreSQL: a statement  *)
(* run through a transaction becomes visible at its commit, a statement run *)
(* through the pool is committed on its own, a row written by an open       *)
(* transaction is locked until that transaction ends, and pg_notify inside  *)
(* a transaction is delivered, at commit, to the sessions that LISTEN.      *)

\* Largest number of SetEntry/DeleteEntry calls explored.
MaxWrites == 2

\* Run: a.entryUpdates = make(chan EntryUpdateNotification, 16)
EntryUpdatesCap == 16

\* preloadEntries: limit int64 = 200
PreloadLimit == 200

\* NewApplication: one checker and one trie per embedded dictionary
SupportedLanguages == {"sv"}

\* The requests passed to SetEntry, with the fields of req.Entry: an entry,
\* an update of it with another mistake, an entry whose mistake is a
\* template, an unknown language, an empty language, text and status, and a
\* request without entry (req.Entry == nil: no fields set, marked by Nil).
SetRequests ==
    { [Language |-> "sv", Text |-> A, Status |-> "approved",
       Description |-> "d1", CommonMistakes |-> <<B>>],
      [Language |-> "sv", Text |-> A, Status |-> "approved",
       Description |-> "d2", CommonMistakes |-> <<AA>>],
      [Language |-> "sv", Text |-> B, Status |-> "approved",
       Description |-> "d1", CommonMistakes |-> << <<"{", "a", "|", "b", "}", "a">> >>],
      [Language |-> "xx", Text |-> A, Status |-> "approved",
       Description |-> "d1", CommonMistakes |-> <<>>],
      [Language |-> "", Text |-> A, Status |-> "approved",
       Description |-> "d1", CommonMistakes |-> <<>>],
      [Language |-> "sv", Text |-> <<>>, Status |-> "approved",
       Description |-> "d1", CommonMistakes |-> <<>>],
      [Language |-> "sv", Text |-> A, Status |-> "",
       Description |-> "d1", CommonMistakes |-> <<>>],
      [Language |-> "", Text |-> <<>>, Status |-> "",
       Description |-> "", CommonMistakes |-> <<>>, Nil |-> TRUE] }

\* The requests passed to DeleteEntry
DeleteRequests ==
    { [Language |-> "sv", Text |-> A],
      [Language |-> "sv", Text |-> B],
      [Language |-> "xx", Text |-> A],
      [Language |-> "", Text |-> A],
      [Language |-> "sv", Text |-> <<>>] }

\* The primary key of table entry
Key(language, text) == <<language, text>>

\* SetEntry, lines 476-496: the checks made before the transaction starts
SetEntryInvalid(req) ==
    \/ "Nil" \in DOMAIN req
    \/ req.Language = ""
    \/ req.Language \notin SupportedLanguages
    \/ req.Text = <<>>
    \/ req.Status = ""

\* DeleteEntry, lines 308-314
DeleteEntryInvalid(req) ==
    \/ req.Language = ""
    \/ req.Text = <<>>

\* query SetEntry: INSERT ... ON CONFLICT(language, entry) DO UPDATE
SqlSetEntry(table, req) ==
    (Key(req.Language, req.Text) :>
        [Language |-> req.Language, Entry |-> req.Text, Status |-> req.Status,
         Description |-> req.Description, CommonMistakes |-> req.CommonMistakes])
    @@ table

\* query DeleteEntry: DELETE FROM entry WHERE language = .. AND entry = ..
SqlDeleteEntry(table, req) ==
    [k \in (DOMAIN table) \ {Key(req.Language, req.Text)} |-> table[k]]

\* The keys an open transaction has upserted: a second upsert of the key
\* waits for it, on the lock of the row or on the entry of the unique index.
LockedKeys ==
    {Key(txs[i].req.Language, txs[i].req.Text) :
        i \in {j \in DOMAIN txs : txs[j].kind = "SetEntry"}}

\* The committed rows an open transaction has updated and holds locked: a
\* statement outside the transaction waits for these only, the row an open
\* transaction has inserted is not visible to it.
LockedRows == LockedKeys \cap DOMAIN rows

\* EntryUpdateNotification, as marshalled by pgNotify and unmarshalled by
\* runListener; id names the call that sent it (history, not payload).
Notification(id, req, deleted) ==
    [Language |-> req.Language, Text |-> req.Text, Deleted |-> deleted, id |-> id]

\* A finished call in the history: its request, whether it returned a
\* response, the twirp code of its error, and what it did to the store.
Outcome(kind, req, ok, rowCommitted, changedRows, notified) ==
    [kind |-> kind, req |-> req, Language |-> req.Language, Text |-> req.Text,
     ok |-> ok, code |-> IF ok THEN "ok" ELSE "internal",
     rowCommitted |-> rowCommitted, changedRows |-> changedRows,
     notified |-> notified]

\* A call ended by twirp.RequiredArgumentError or twirp.InvalidArgumentError
\* before a.db.Begin.
Rejected(kind, req) ==
    [Outcome(kind, req, FALSE, FALSE, FALSE, FALSE) EXCEPT !.code = "invalid_argument"]

CloseTx(id) == [i \in (DOMAIN txs) \ {id} |-> txs[i]]

----------------------------------------------------------------------------
(* Application: the in-memory state *)

AppState == [phrases |-> phrases, checkers |-> checkers]

\* preloadEntries lines 50-60 and handleEntryUpdate lines 103-113:
\* p := phrase{..}; trie.Put(text, &p); checker.Add(text);
\* trie.Put(cm, &p) for every common mistake as stored
PutEntry(st, language, text, description, commonMistakes) ==
    LET p == [Text |-> text, Description |-> description] IN
    [phrases  |-> [st.phrases EXCEPT
                      ![language] = TriePutAll(@, {text} \cup Range(commonMistakes), p)],
     checkers |-> [st.checkers EXCEPT ![language] = HunspellAdd(@, {text})]]

\* handleEntryUpdate lines 84-85 and 95-96
DropEntry(st, language, text) ==
    [phrases  |-> [st.phrases EXCEPT ![language] = TrieDelete(@, text)],
     checkers |-> [st.checkers EXCEPT ![language] = HunspellRemove(@, {text})]]

\* preloadEntries, lines 38-60: the body of the loop for one row
PreloadRow(st, row) ==
    IF row.Language \notin DOMAIN st.checkers \/ row.Language \notin DOMAIN st.phrases
    THEN st
    ELSE PutEntry(st, row.Language, row.Entry, row.Description, row.CommonMistakes)

\* The loop over rows lo..hi of a page, first to last; the range is halved
\* so that a page of 200 rows is evaluated at a depth of 8.
RECURSIVE PreloadRange(_, _, _, _)
PreloadRange(st, page, lo, hi) ==
    IF lo > hi THEN st
    ELSE IF lo = hi THEN PreloadRow(st, page[lo])
    ELSE LET mid  == (lo + hi) \div 2
             left == PreloadRange(st, page, lo, mid)
         IN \* the first half is evaluated before the second half is entered
            IF DOMAIN left.phrases = DOMAIN st.phrases
            THEN PreloadRange(left, page, mid + 1, hi)
            ELSE left

\* preloadEntries, the loop over the rows of one page
PreloadRows(st, page) == PreloadRange(st, page, 1, Len(page))

\* query ListEntries without filters: LIMIT .. OFFSET .. over the rows in
\* the order the store returns them
ListEntries(listed, limit, offset) ==
    SubSeq(listed, offset + 1, IF offset + limit < Len(listed)
                               THEN offset + limit ELSE Len(listed))

\* preloadEntries: page after page until an empty page
RECURSIVE preloadEntries(_, _, _)
preloadEntries(st, listed, offset) ==
    LET page == ListEntries(listed, PreloadLimit, offset) IN
    IF Len(page) = 0 THEN st
    ELSE preloadEntries(PreloadRows(st, page), listed, offset + PreloadLimit)

\* handleEntryUpdate, with table the rows GetEntry reads
handleEntryUpdate(st, table, n) ==
    IF n.Language \notin DOMAIN st.checkers \/ n.Language \notin DOMAIN st.phrases
    THEN st
    ELSE IF n.Deleted THEN DropEntry(st, n.Language, n.Text)
    ELSE IF Key(n.Language, n.Text) \notin DOMAIN table
    THEN DropEntry(st, n.Language, n.Text)
    ELSE LET entry == table[Key(n.Language, n.Text)] IN
         PutEntry(st, n.Language, n.Text, entry.Description, entry.CommonMistakes)

\* Application.spellcheck, lines 571-602: entries from the phrases trie and
\* the text with every handled phrase cut out (bytes.ReplaceAll)
RECURSIVE AppOverlayFrom(_, _, _, _, _)
AppOverlayFrom(t, ys, k, entries, textData) ==
    IF k > Len(ys) THEN [entries |-> entries, textData |-> textData]
    ELSE
      LET text == ys[k] IN
      IF ~TrieHas(t, text) THEN AppOverlayFrom(t, ys, k + 1, entries, textData)
      ELSE
        LET p == t[text] IN
        IF p.Text # text /\ text \in EntryTexts(entries)
        THEN AppOverlayFrom(t, ys, k + 1, entries, textData)
        ELSE AppOverlayFrom(t, ys, k + 1,
                 IF p.Text # text
                 THEN Append(entries,
                             [Text |-> text,
                              Suggestions |-> <<[Text |-> p.Text,
                                                 Description |-> p.Description]>>])
                 ELSE entries,
                 ReplaceFrom(<<text>>, textData, 1))

\* Application.spellcheck, lines 606-640
RECURSIVE AppBaseFrom(_, _, _, _, _)
AppBaseFrom(checker, toks, k, seen, entries) ==
    IF k > Len(toks) THEN entries
    ELSE IF toks[k].Type # "Letter" \/ toks[k].Text \in seen THEN
        AppBaseFrom(checker, toks, k + 1, seen, entries)
    ELSE
        LET word == toks[k].Text
            hs   == HunspellSuggest(checker, word)
        IN
        AppBaseFrom(checker, toks, k + 1, seen \cup {word},
            IF HunspellSpell(checker, word) THEN entries
            ELSE Append(entries,
                        [Text |-> word,
                         Suggestions |-> [i \in 1..Len(hs) |->
                                            [Text |-> hs[i], Description |-> ""]]]))

\* Application.spellcheck(text, checker, langCode): the entries returned
spellcheck(st, text, langCode) ==
    LET o == AppOverlayFrom(st.phrases[langCode], PhraseIterator(text, PhraseLength),
                            1, <<>>, text)
    IN AppBaseFrom(st.checkers[langCode], Tokens(o.textData), 1, {}, o.entries)

----------------------------------------------------------------------------
(* SetEntry and DeleteEntry, one action per round trip to the store *)

SyncInit ==
    /\ rows = <<>>
    /\ txs = <<>>
    /\ calls = <<>>
    /\ nWrites = 0
    /\ listener = "init"
    /\ connQueue = <<>>
    /\ received = <<>>
    /\ sending = <<>>
    /\ entryUpdates = <<>>
    /\ handling = <<>>
    /\ updater = "preload"
    /\ updOffset = 0
    /\ phrases = [l \in SupportedLanguages |-> EmptyTrie]
    /\ checkers = [l \in SupportedLanguages |-> BaseDictionary]
    /\ rowLog = <<>>
    /\ applied = <<>>

\* SetEntry, lines 468-516: the checks, a.db.Begin and q.SetEntry.  The
\* upsert is made through the transaction: it waits for the lock of the row
\* and stays invisible until the commit.
SetEntry_Write ==
    /\ nWrites < MaxWrites
    /\ \E req \in SetRequests, ok \in BOOLEAN :
         LET id == nWrites + 1 IN
         IF SetEntryInvalid(req) \/ ~ok THEN
             /\ SetEntryInvalid(req) => ok
             /\ calls' = calls @@ (id :> IF SetEntryInvalid(req)
                                         THEN Rejected("SetEntry", req)
                                         ELSE Outcome("SetEntry", req, FALSE, FALSE, FALSE, FALSE))
             /\ UNCHANGED txs
         ELSE
             /\ Key(req.Language, req.Text) \notin LockedKeys
             /\ txs' = txs @@ (id :> [kind |-> "SetEntry", req |-> req, pc |-> "written",
                                      rowCommitted |-> FALSE, changedRows |-> FALSE])
             /\ UNCHANGED calls
    /\ nWrites' = nWrites + 1
    /\ UNCHANGED <<rows, listener, connQueue, received, entryUpdates, updater,
                   phrases, checkers, rowLog, applied>>
    /\ UNCHANGED <<sending, updOffset>>
    /\ UNCHANGED handling
    /\ UNCHANGED exceptSync

\* DeleteEntry, lines 300-331: the checks, a.db.Begin and a.q.DeleteEntry.
\* The delete is made through a.q, the queries of the pool, not through q,
\* the queries of the transaction: it is committed on its own.
DeleteEntry_Write ==
    /\ nWrites < MaxWrites
    /\ \E req \in DeleteRequests, ok \in BOOLEAN :
         LET id == nWrites + 1 IN
         IF DeleteEntryInvalid(req) \/ ~ok THEN
             /\ DeleteEntryInvalid(req) => ok
             /\ calls' = calls @@ (id :> IF DeleteEntryInvalid(req)
                                         THEN Rejected("DeleteEntry", req)
                                         ELSE Outcome("DeleteEntry", req, FALSE, FALSE, FALSE, FALSE))
             /\ UNCHANGED <<txs, rows, rowLog>>
         ELSE
             /\ Key(req.Language, req.Text) \notin LockedRows
             /\ rows' = SqlDeleteEntry(rows, req)
             /\ rowLog' = Append(rowLog, id)
             /\ txs' = txs @@ (id :> [kind |-> "DeleteEntry", req |-> req, pc |-> "written",
                                      rowCommitted |-> TRUE,
                                      changedRows |-> SqlDeleteEntry(rows, req) # rows])
             /\ UNCHANGED calls
    /\ nWrites' = nWrites + 1
    /\ UNCHANGED <<listener, connQueue, received, entryUpdates, updater,
                   phrases, checkers, applied>>
    /\ UNCHANGED <<sending, updOffset>>
    /\ UNCHANGED handling
    /\ UNCHANGED exceptSync

\* notifyEntryUpdated(ctx, q, ..): pg_notify inside the transaction; on an
\* error the deferred pg.Rollback ends the transaction.
TxNotify(kind) ==
    /\ \E id \in DOMAIN txs, ok \in BOOLEAN :
         /\ txs[id].kind = kind
         /\ txs[id].pc = "written"
         /\ IF ok THEN
               /\ txs' = [txs EXCEPT ![id].pc = "notified"]
               /\ UNCHANGED calls
            ELSE
               /\ txs' = CloseTx(id)
               /\ calls' = calls @@ (id :> Outcome(kind, txs[id].req, FALSE,
                                                   txs[id].rowCommitted,
                                                   txs[id].changedRows, FALSE))
    /\ UNCHANGED <<rows, nWrites, listener, connQueue, received, entryUpdates,
                   updater, phrases, checkers, rowLog, applied>>
    /\ UNCHANGED <<sending, updOffset>>
    /\ UNCHANGED handling
    /\ UNCHANGED exceptSync

\* SetEntry, lines 518-524
SetEntry_Notify == TxNotify("SetEntry")

\* DeleteEntry, lines 333-340
DeleteEntry_Notify == TxNotify("DeleteEntry")

\* tx.Commit: the statements of the transaction become visible and its
\* notification reaches the connection that listens; on an error the
\* deferred pg.Rollback drops both.
TxCommit(kind) ==
    /\ \E id \in DOMAIN txs, ok \in BOOLEAN :
         LET tx    == txs[id]
             rows2 == IF kind = "SetEntry" THEN SqlSetEntry(rows, tx.req) ELSE rows
         IN
         /\ tx.kind = kind
         /\ tx.pc = "notified"
         /\ txs' = CloseTx(id)
         /\ IF ok THEN
               /\ rows' = rows2
               /\ rowLog' = IF kind = "SetEntry" THEN Append(rowLog, id) ELSE rowLog
               /\ connQueue' = IF listener = "listening"
                               THEN Append(connQueue,
                                           Notification(id, tx.req, kind = "DeleteEntry"))
                               ELSE connQueue
               /\ calls' = calls @@ (id :> Outcome(kind, tx.req, TRUE, TRUE,
                                                   tx.changedRows \/ rows2 # rows, TRUE))
            ELSE
               /\ calls' = calls @@ (id :> Outcome(kind, tx.req, FALSE, tx.rowCommitted,
                                                   tx.changedRows, FALSE))
               /\ UNCHANGED <<rows, rowLog, connQueue>>
    /\ UNCHANGED <<nWrites, listener, received, entryUpdates, updater,
                   phrases, checkers, applied>>
    /\ UNCHANGED <<sending, updOffset>>
    /\ UNCHANGED handling
    /\ UNCHANGED exceptSync

\* SetEntry, lines 526-531
SetEntry_Commit == TxCommit("SetEntry")

\* DeleteEntry, lines 342-347
DeleteEntry_Commit == TxCommit("DeleteEntry")

----------------------------------------------------------------------------
(* The tasks of Application.Run *)

\* runListener, lines 652-679: acquire a connection and LISTEN on it.  An
\* error returns from runListener; Run then closes a.entryUpdates.
Listener_Listen ==
    /\ listener = "init"
    /\ \E ok \in BOOLEAN : listener' = IF ok THEN "listening" ELSE "returned"
    /\ UNCHANGED <<rows, txs, calls, nWrites, connQueue, received, entryUpdates,
                   updater, phrases, checkers, rowLog, applied>>
    /\ UNCHANGED <<sending, updOffset>>
    /\ UNCHANGED handling
    /\ UNCHANGED exceptSync

\* runListener, lines 684-694: the first goroutine got a notification from
\* the connection and offers it on `received`.
Listener_Wait ==
    /\ listener = "listening"
    /\ received = <<>>
    /\ connQueue # <<>>
    /\ received' = <<Head(connQueue)>>
    /\ connQueue' = Tail(connQueue)
    /\ UNCHANGED <<rows, txs, calls, nWrites, listener, entryUpdates,
                   updater, phrases, checkers, rowLog, applied>>
    /\ UNCHANGED <<sending, updOffset>>
    /\ UNCHANGED handling
    /\ UNCHANGED exceptSync

\* runListener, lines 686-690: WaitForNotification returns an error and the
\* first goroutine returns.  The second goroutine waits on ctx.Done() of
\* the caller and on `received`, so grp.Wait() does not return: nothing is
\* closed, nothing is listened to again, and what the connection had not
\* delivered is lost.
Listener_ConnError ==
    /\ listener = "listening"
    /\ received = <<>>
    /\ listener' = "broken"
    /\ connQueue' = <<>>
    /\ UNCHANGED <<rows, txs, calls, nWrites, received, entryUpdates,
                   updater, phrases, checkers, rowLog, applied>>
    /\ UNCHANGED <<sending, updOffset>>
    /\ UNCHANGED handling
    /\ UNCHANGED exceptSync

\* A notification whose payload is not the JSON of an
\* EntryUpdateNotification
BadPayload == [Malformed |-> TRUE, id |-> 0]

\* Another client of the store runs NOTIFY entry_update with such a
\* payload (one at a time is on its way).
Foreign_Notify ==
    /\ listener = "listening"
    /\ BadPayload \notin Range(connQueue) \cup Range(received)
    /\ connQueue' = Append(connQueue, BadPayload)
    /\ UNCHANGED <<rows, txs, calls, nWrites, listener, received, entryUpdates,
                   updater, phrases, checkers, rowLog, applied>>
    /\ UNCHANGED <<sending, updOffset>>
    /\ UNCHANGED handling
    /\ UNCHANGED exceptSync

\* json.Unmarshal of the payload fails.
Unparsable(notification) == "Malformed" \in DOMAIN notification

\* Mutant of Listener_Dispatch: a payload that does not parse ends the
\* listener.
Listener_Dispatch_BadPayloadReturns ==
    /\ received # <<>>
    /\ sending = <<>>
    /\ IF Unparsable(received[1])
       THEN /\ listener' = "returned"
            /\ UNCHANGED sending
       ELSE /\ sending' = received
            /\ UNCHANGED listener
    /\ received' = <<>>
    /\ UNCHANGED <<rows, txs, calls, nWrites, connQueue, entryUpdates,
                   updater, phrases, checkers, rowLog, applied>>
    /\ UNCHANGED updOffset
    /\ UNCHANGED handling
    /\ UNCHANGED exceptSync

\* runListener, lines 696-714: the second goroutine takes the notification
\* from `received` and unmarshals it; it goes on to the next one when the
\* payload does not parse.
Listener_Dispatch ==
    /\ received # <<>>
    /\ sending = <<>>
    /\ sending' = IF Unparsable(received[1]) THEN <<>> ELSE received
    /\ received' = <<>>
    /\ UNCHANGED <<rows, txs, calls, nWrites, listener, connQueue, entryUpdates,
                   updater, phrases, checkers, rowLog, applied>>
    /\ UNCHANGED updOffset
    /\ UNCHANGED handling
    /\ UNCHANGED exceptSync

\* runListener, line 716: a.entryUpdates <- n, which blocks while the
\* channel is full.
Listener_Send ==
    /\ sending # <<>>
    /\ Len(entryUpdates) < EntryUpdatesCap
    /\ entryUpdates' = Append(entryUpdates, sending[1])
    /\ sending' = <<>>
    /\ UNCHANGED <<rows, txs, calls, nWrites, listener, connQueue, received,
                   updater, phrases, checkers, rowLog, applied>>
    /\ UNCHANGED updOffset
    /\ UNCHANGED handling
    /\ UNCHANGED exceptSync

\* The orders in which a query without ORDER BY may return the rows.
RowOrders(table) ==
    {o \in [1..Cardinality(DOMAIN table) -> DOMAIN table] : Range(o) = DOMAIN table}

\* Run, lines 273-276, and preloadEntries, lines 27-63: one ListEntries
\* query and the loop over its rows.  Every query returns the rows in an
\* order of its own; an empty page ends the preload, an error ends the task.
Updater_Preload ==
    /\ updater = "preload"
    /\ \E ok \in BOOLEAN, o \in RowOrders(rows) :
         IF ok THEN
            LET page == ListEntries([i \in 1..Len(o) |-> rows[o[i]]],
                                    PreloadLimit, updOffset)
                st   == PreloadRows(AppState, page)
            IN IF Len(page) = 0
               THEN /\ updater' = "running"
                    /\ UNCHANGED <<phrases, checkers, updOffset>>
               ELSE /\ phrases' = st.phrases
                    /\ checkers' = st.checkers
                    /\ updOffset' = updOffset + PreloadLimit
                    /\ UNCHANGED updater
         ELSE
            /\ updater' = "stopped"
            /\ UNCHANGED <<phrases, checkers, updOffset>>
    /\ UNCHANGED <<rows, txs, calls, nWrites, listener, connQueue, received,
                   entryUpdates, rowLog, applied>>
    /\ UNCHANGED sending
    /\ UNCHANGED handling
    /\ UNCHANGED exceptSync

\* Run, line 282: n, ok := <-a.entryUpdates, the receive of the next
\* notification, which makes room in the channel.
Updater_Receive ==
    /\ updater = "running"
    /\ handling = <<>>
    /\ entryUpdates # <<>>
    /\ handling' = <<Head(entryUpdates)>>
    /\ entryUpdates' = Tail(entryUpdates)
    /\ UNCHANGED <<rows, txs, calls, nWrites, listener, connQueue, received,
                   updater, phrases, checkers, rowLog, applied>>
    /\ UNCHANGED <<sending, updOffset>>
    /\ UNCHANGED exceptSync

\* Run, lines 286-290, and handleEntryUpdate: under a.m, GetEntry reads the
\* row as committed now and the state in memory is updated.  An error of
\* GetEntry other than ErrNoRows ends the task.
Updater_Handle ==
    /\ updater = "running"
    /\ handling # <<>>
    /\ \E ok \in BOOLEAN :
         LET n  == handling[1]
             st == handleEntryUpdate(AppState, rows, n)
         IN
         /\ handling' = <<>>
         /\ IF ok THEN
               /\ phrases' = st.phrases
               /\ checkers' = st.checkers
               /\ applied' = Append(applied, n.id)
               /\ UNCHANGED updater
            ELSE
               /\ n.Language \in SupportedLanguages /\ ~n.Deleted
               /\ updater' = "stopped"
               /\ UNCHANGED <<phrases, checkers, applied>>
    /\ UNCHANGED <<rows, txs, calls, nWrites, listener, connQueue, received,
                   entryUpdates, rowLog>>
    /\ UNCHANGED <<sending, updOffset>>
    /\ UNCHANGED exceptSync

\* Run, lines 282-285: a.entryUpdates was closed and is drained.
Updater_Closed ==
    /\ updater = "running"
    /\ listener = "returned"
    /\ handling = <<>>
    /\ entryUpdates = <<>>
    /\ updater' = "stopped"
    /\ UNCHANGED <<rows, txs, calls, nWrites, listener, connQueue, received,
                   entryUpdates, phrases, checkers, rowLog, applied>>
    /\ UNCHANGED <<sending, updOffset>>
    /\ UNCHANGED handling
    /\ UNCHANGED exceptSync

SyncNext ==
    \/ SetEntry_Write \/ SetEntry_Notify \/ SetEntry_Commit
    \/ DeleteEntry_Write \/ DeleteEntry_Notify \/ DeleteEntry_Commit
    \/ Listener_Listen \/ Listener_Wait \/ Listener_ConnError \/ Listener_Dispatch
    \/ Listener_Send
    \/ Foreign_Notify
    \/ Updater_Preload \/ Updater_Receive \/ Updater_Handle \/ Updater_Closed

----------------------------------------------------------------------------
(* A call of Expand *)

\* Longest template typed character by character.
MaxTemplateLen == 5

TemplateChars == {"a", "b", "{", "}", "|"}

\* Templates of the shapes of TestExpand, longer than MaxTemplateLen: two and
\* three groups with separators, an unclosed, a stray and a nested brace,
\* empty braces after static text.
ExpandTests ==
    { <<"{", "a", "|", "b", "}", " ", "{", "a", "|", "b", "}">>,
      <<"{", "a", "|", "b", "}", " ", "{", "a", "|", "b", "}", " ", "{", "b", "|", "a", "}">>,
      <<"a", " ", "{", "b", "|", "a", "a", "|", "b", "b", "}">>,
      <<"a", "b", " ", "{", "b", "a">>,
      <<"a", "b", " ", "b", "a", "}">>,
      <<"a", "b", " ", "{", "b", "a", "{", "a", "b", "}", "}">>,
      <<"a", "b", ":", " ", "{", "}">> }

ExpandInit ==
    /\ template = <<>>
    /\ expanded = <<>>

\* The caller builds the input: one more character
Expand_Type ==
    /\ expanded = <<>>
    /\ Len(template) < MaxTemplateLen
    /\ \E c \in TemplateChars : template' = Append(template, c)
    /\ UNCHANGED expanded
    /\ UNCHANGED exceptExpand

\* The caller takes one of the longer inputs
Expand_Pick ==
    /\ expanded = <<>>
    /\ template = <<>>
    /\ \E t \in ExpandTests : template' = t
    /\ UNCHANGED expanded
    /\ UNCHANGED exceptExpand

\* Expand(input)
Expand_Call ==
    /\ expanded = <<>>
    /\ expanded' = <<Expand(template)>>
    /\ UNCHANGED template
    /\ UNCHANGED exceptExpand

ExpandNext == Expand_Type \/ Expand_Pick \/ Expand_Call

----------------------------------------------------------------------------
(* A value returned by PhraseIterator *)

\* Longest text explored, in tokens: more than the window of
\* PhraseLength * WindowFactor tokens holds.
MaxTokens == 14

\* Largest number of range loops over one iterator value.
MaxRuns == 2

\* The words and the separators of the text: the k-th word and the k-th
\* separator are taken in turn from these, so that any PhraseLength
\* neighbouring words differ.
ItWords == << <<"a">>, <<"b">>, <<"a", "b">> >>

ItSeps == << <<" ">>, <<",">> >>

CountType(toks, type) == Cardinality({i \in 1..Len(toks) : toks[i].Type = type})

\* The token that may follow toks in a text: a word, unless toks ends with
\* a word (two words without a separator are one word), or a separator.
NextTokens(toks) ==
    (IF toks # <<>> /\ toks[Len(toks)].Type = "Letter" THEN {}
     ELSE {[Text |-> ItWords[(CountType(toks, "Letter") % Len(ItWords)) + 1],
            Type |-> "Letter"]})
    \cup {[Text |-> ItSeps[(CountType(toks, "None") % Len(ItSeps)) + 1],
           Type |-> "None"]}

IterInit ==
    /\ itText = <<>>
    /\ itEOF = FALSE
    /\ itPos = 0
    /\ itRing = [window |-> <<>>, start |-> 0]
    /\ itPc = "idle"
    /\ itRuns = 0
    /\ itYielded = <<>>

\* Mutant of Resume: window, start and segmenter are created when the loop
\* starts, not when PhraseIterator is called.
Resume_FreshState(it) == [pos |-> 0, ring |-> [window |-> <<>>, start |-> 0]]

\* What a range loop starts from: window, start and segmenter are variables
\* of PhraseIterator captured by the function it returns, so a loop goes on
\* where the loop before it stopped.
Resume(it) == it

\* The calls of yield made for one Letter token when the consumer returns
\* false at call number stopAt (0: never): the loop returns at that call.
YieldCalls(ys, stopAt, run, end) ==
    [i \in 1..(IF stopAt = 0 THEN Len(ys) ELSE stopAt) |->
        [run |-> run, end |-> end, phrase |-> ys[i], ret |-> (i # stopAt)]]

\* for v := range it { ... }: the consumer starts a loop over the value
Iter_Range ==
    /\ itPc = "idle"
    /\ itRuns < MaxRuns
    /\ LET it == Resume([pos |-> itPos, ring |-> itRing]) IN
         /\ itPos' = it.pos
         /\ itRing' = it.ring
    /\ itPc' = "running"
    /\ itRuns' = itRuns + 1
    /\ UNCHANGED <<itText, itEOF, itYielded>>
    /\ UNCHANGED exceptIter

\* One round of `for segmenter.Segment()`: the next token is put in the
\* window and, for a Letter token, its sequences are yielded until the
\* consumer returns false.
Iter_Token ==
    /\ itPc = "running"
    /\ \E t \in (IF itPos < Len(itText) THEN {itText[itPos + 1]}
                  ELSE IF itEOF \/ Len(itText) >= MaxTokens THEN {}
                  ELSE NextTokens(itText)) :
         LET ring == WindowPush(itRing, t, PhraseLength * WindowFactor)
             ys   == IF t.Type = "Letter" THEN YieldsAt(ring, PhraseLength) ELSE <<>>
         IN
         /\ itText' = IF itPos < Len(itText) THEN itText ELSE Append(itText, t)
         /\ itPos' = itPos + 1
         /\ itRing' = ring
         /\ \E stopAt \in 0..Len(ys) :
              /\ itYielded' = itYielded \o YieldCalls(ys, stopAt, itRuns, itPos + 1)
              /\ itPc' = IF stopAt = 0 THEN "running" ELSE "idle"
    /\ UNCHANGED <<itEOF, itRuns>>
    /\ UNCHANGED exceptIter

\* segmenter.Segment() returns false: the text has ended, the loop ends
Iter_End ==
    /\ itPc = "running"
    /\ itPos = Len(itText)
    /\ itEOF' = TRUE
    /\ itPc' = "idle"
    /\ UNCHANGED <<itText, itPos, itRing, itRuns, itYielded>>
    /\ UNCHANGED exceptIter

IterNext == Iter_Range \/ Iter_Token \/ Iter_End

----------------------------------------------------------------------------
(* GetEntry and ListEntries over a table of many rows *)

\* Largest number of rows in the table: more than two pages of ListEntries.
MaxRows == 205

\* ListEntries: limit := int64(100)
ListLimit == 100

\* Texts with the characters LIKE gives a meaning to: a%, a_ and a\b.
PatternTexts == << <<"a", "%">>, <<"a", "_">>, <<"a", "\\", "b">> >>

\* The k-th string over a and b.
RECURSIVE LetterText(_)
LetterText(k) ==
    IF k = 0 THEN <<>>
    ELSE Append(LetterText((k - 1) \div 2), IF (k - 1) % 2 = 0 THEN "a" ELSE "b")

\* The text of the k-th row stored: the texts of PatternTexts, then the
\* strings over a and b.
RowText(k) ==
    IF k <= Len(PatternTexts) THEN PatternTexts[k]
    ELSE LetterText(k - Len(PatternTexts))

\* The k-th row stored.
StoredRow(k) ==
    [Language |-> IF k % 3 = 0 THEN "en" ELSE "sv", Entry |-> RowText(k),
     Status |-> IF k % 2 = 0 THEN "pending" ELSE "approved",
     Description |-> "d1", CommonMistakes |-> <<>>]

\* The requests passed to ListEntries
ListRequests ==
    [Prefix : {<<>>, A, AB, <<"a", "_">>, <<"%">>, <<"a", "%">>,
               <<"a", "\\">>, <<"a", "\\", "_">>},
     Language : {"", "sv"}, Status : {"", "approved"}, Page : -1..2]

\* The requests passed to GetEntry: rows that exist or not, empty fields.
GetRequests ==
    [Language : {"", "sv", "en"}, Text : {<<>>, A, B, <<"b", "b", "b", "b">>}]

\* pg.TextOrNull: the zero string is NULL.
TextOrNull(str, zero) == [String |-> str, Valid |-> str # zero]

\* entry LIKE pattern: % stands for any string, _ for any one character,
\* and the character after a backslash for itself.  (A pattern that ends in
\* a lone backslash is an error of the store; the pattern of ListEntries
\* ends in %, and such a pattern matches nothing here.)
RECURSIVE SqlLike(_, _)
SqlLike(text, pattern) ==
    IF pattern = <<>> THEN text = <<>>
    ELSE IF Head(pattern) = "\\"
    THEN /\ Len(pattern) > 1
         /\ text # <<>>
         /\ pattern[2] = Head(text)
         /\ SqlLike(Tail(text), Tail(Tail(pattern)))
    ELSE IF Head(pattern) = "%"
    THEN SqlLike(text, Tail(pattern))
         \/ (text # <<>> /\ SqlLike(Tail(text), pattern))
    ELSE /\ text # <<>>
         /\ Head(pattern) = "_" \/ Head(pattern) = Head(text)
         /\ SqlLike(Tail(text), Tail(pattern))

\* Query ListEntries has no ORDER BY: the store may return the rows in any
\* order, and in another one for each query.  Three orders are explored: the
\* order of storage (a sequential scan), its reverse, and the order of the
\* entry texts byte by byte (a scan of idx_entry_pattern_ops).
Reverse(seq) == [i \in 1..Len(seq) |-> seq[Len(seq) + 1 - i]]

\* The characters of the texts in the order of their bytes
ByteOrder == <<"%", "\\", "_", "a", "b">>

\* s sorts before t byte by byte.
BytesLess(s, t) ==
    LET byte(c) == CHOOSE n \in DOMAIN ByteOrder : ByteOrder[n] = c IN
    \E i \in 1..Len(t) :
        /\ i <= Len(s) + 1
        /\ \A j \in 1..(i - 1) : s[j] = t[j]
        /\ i = Len(s) + 1 \/ byte(s[i]) < byte(t[i])

ByEntry(table) == SortSeq(table, LAMBDA r1, r2 : BytesLess(r1.Entry, r2.Entry))

ScanOrders(table) == {table, Reverse(table), ByEntry(table)}

\* query ListEntries: the three optional filters, then LIMIT and OFFSET, over
\* the rows in the order the scan of this query meets them
SqlListEntries(table, arg) ==
    LET hit(row) == /\ ~arg.Language.Valid \/ row.Language = arg.Language.String
                    /\ ~arg.Pattern.Valid \/ SqlLike(row.Entry, arg.Pattern.String)
                    /\ ~arg.Status.Valid \/ row.Status = arg.Status.String
        hits == SelectSeq(table, hit)
    IN SubSeq(hits, arg.Offset + 1,
              IF arg.Offset + arg.Limit < Len(hits) THEN arg.Offset + arg.Limit
              ELSE Len(hits))

\* query GetEntry: the rows with the key, none or one
SqlGetEntry(table, language, entry) ==
    SelectSeq(table, LAMBDA row : row.Language = language /\ row.Entry = entry)

\* spell.CustomEntry of a row
CustomEntry(row) ==
    [Language |-> row.Language, Text |-> row.Entry, Status |-> row.Status,
     Description |-> row.Description, CommonMistakes |-> row.CommonMistakes]

\* The result of a read RPC: the twirp code, the entries of the response
\* and whether a query was sent to the store.
ReadResult(code, entries, queried) ==
    [code |-> code, entries |-> entries, queried |-> queried]

\* Mutant of ListEntriesRPC: the page number is used as the offset.
ListEntriesRPC_OffsetIsPage(table, req, dbOk) ==
    IF ContainsChar(req.Prefix, "%") THEN ReadResult("invalid_argument", <<>>, FALSE)
    ELSE LET pattern == IF req.Prefix # <<>> THEN req.Prefix \o <<"%">> ELSE <<>>
             offset  == req.Page
         IN IF ~dbOk \/ offset < 0 THEN ReadResult("internal", <<>>, TRUE)
            ELSE LET found == SqlListEntries(table,
                                  [Language |-> TextOrNull(req.Language, ""),
                                   Pattern  |-> TextOrNull(pattern, <<>>),
                                   Status   |-> TextOrNull(req.Status, ""),
                                   Limit |-> ListLimit, Offset |-> offset])
                 IN ReadResult("ok", [i \in 1..Len(found) |-> CustomEntry(found[i])], TRUE)

\* Application.ListEntries; dbOk: the store answers the query.  A negative
\* OFFSET is an error of the store.
ListEntriesRPC(table, req, dbOk) ==
    IF ContainsChar(req.Prefix, "%") THEN ReadResult("invalid_argument", <<>>, FALSE)
    ELSE LET pattern == IF req.Prefix # <<>> THEN req.Prefix \o <<"%">> ELSE <<>>
             offset  == ListLimit * req.Page
         IN IF ~dbOk \/ offset < 0 THEN ReadResult("internal", <<>>, TRUE)
            ELSE LET found == SqlListEntries(table,
                                  [Language |-> TextOrNull(req.Language, ""),
                                   Pattern  |-> TextOrNull(pattern, <<>>),
                                   Status   |-> TextOrNull(req.Status, ""),
                                   Limit |-> ListLimit, Offset |-> offset])
                 IN ReadResult("ok", [i \in 1..Len(found) |-> CustomEntry(found[i])], TRUE)

\* Application.GetEntry: every error of a.q.GetEntry, pgx.ErrNoRows too,
\* is returned as twirp.InternalErrorf.
GetEntryRPC(table, req, dbOk) ==
    IF req.Language = "" \/ req.Text = <<>> THEN ReadResult("invalid_argument", <<>>, FALSE)
    ELSE LET found == SqlGetEntry(table, req.Language, req.Text) IN
         IF ~dbOk \/ found = <<>> THEN ReadResult("internal", <<>>, TRUE)
         ELSE ReadResult("ok", <<CustomEntry(found[1])>>, TRUE)

ReadInit ==
    /\ stored = <<>>
    /\ readRes = [op |-> "none"]

\* A row is committed to the table.
Read_Store ==
    /\ Len(stored) < MaxRows
    /\ stored' = Append(stored, StoredRow(Len(stored) + 1))
    /\ readRes' = [op |-> "none"]
    /\ UNCHANGED exceptRead

Read_ListEntries ==
    /\ readRes.op = "none"
    /\ \E scan \in ScanOrders(stored), req \in ListRequests, dbOk \in BOOLEAN :
         readRes' = [op |-> "ListEntries", req |-> req, dbOk |-> dbOk,
                     res |-> ListEntriesRPC(scan, req, dbOk)]
    /\ UNCHANGED stored
    /\ UNCHANGED exceptRead

Read_GetEntry ==
    /\ readRes.op = "none"
    /\ \E req \in GetRequests, dbOk \in BOOLEAN :
         readRes' = [op |-> "GetEntry", req |-> req, dbOk |-> dbOk,
                     res |-> GetEntryRPC(stored, req, dbOk)]
    /\ UNCHANGED stored
    /\ UNCHANGED exceptRead

ReadNext == Read_Store \/ Read_ListEntries \/ Read_GetEntry

----------------------------------------------------------------------------
(* preloadEntries over a table of more than one page, each query returning  *)
(* the rows in one of the orders of ScanOrders.                             *)

PreloadInit ==
    /\ plTable = <<>>
    /\ plPc = "store"
    /\ plOffset = 0
    /\ plState = [phrases  |-> [l \in SupportedLanguages |-> EmptyTrie],
                  checkers |-> [l \in SupportedLanguages |-> BaseDictionary]]
    /\ plReturned = <<>>

\* A row is committed before the Application starts.
Preload_Store ==
    /\ plPc = "store"
    /\ Len(plTable) < MaxRows
    /\ plTable' = Append(plTable, StoredRow(Len(plTable) + 1))
    /\ UNCHANGED <<plPc, plOffset, plState, plReturned>>
    /\ UNCHANGED exceptPreload

\* preloadEntries, lines 18-24; no write commits from here on.
Preload_Start ==
    /\ plPc = "store"
    /\ plPc' = "loading"
    /\ UNCHANGED <<plTable, plOffset, plState, plReturned>>
    /\ UNCHANGED exceptPreload

\* preloadEntries, lines 27-63: one turn of the loop.  The query fails, or
\* returns no row, or its rows are put into the trie of their language.
Preload_Page ==
    /\ plPc = "loading"
    /\ \E ok \in BOOLEAN, listed \in ScanOrders(plTable) :
         LET page == ListEntries(listed, PreloadLimit, plOffset) IN
         IF ~ok THEN
            /\ plPc' = "failed"
            /\ UNCHANGED <<plOffset, plState, plReturned>>
         ELSE IF Len(page) = 0 THEN
            /\ plPc' = "done"
            /\ UNCHANGED <<plOffset, plState, plReturned>>
         ELSE
            /\ plState' = PreloadRows(plState, page)
            /\ plOffset' = plOffset + PreloadLimit
            /\ plReturned' = plReturned \o [i \in 1..Len(page) |-> page[i].Entry]
            /\ UNCHANGED plPc
    /\ UNCHANGED plTable
    /\ UNCHANGED exceptPreload

PreloadNext == Preload_Store \/ Preload_Start \/ Preload_Page

----------------------------------------------------------------------------
(* Application.Run: the listener with its two goroutines, the updater, and  *)
(* the cancellation of their contexts.  A notification is the number of     *)
(* the commit that sent it; its content does not matter here.               *)

\* Largest number of notifications committed: more than a.entryUpdates and
\* the two goroutines hold together.
MaxNotifications == 19

\* grp, gCtx := errgroup.WithContext(ctx): gCtx is cancelled with ctx and
\* when a goroutine of grp returns an error.
GCtxDone == grpDone \/ gDone

RunInit ==
    /\ rootDone = FALSE
    /\ grpDone = FALSE
    /\ gDone = FALSE
    /\ pending = <<>>
    /\ nNotified = 0
    /\ lst = "start"
    /\ g1 = "wait"
    /\ g2 = "select"
    /\ queued = <<>>
    /\ g1Got = 0
    /\ g2Got = 0
    /\ handled = <<>>
    /\ closed = FALSE
    /\ upd = "preload"

\* The context passed to Run is cancelled, and with it the context of grp.
Run_Cancel ==
    /\ ~rootDone
    /\ rootDone' = TRUE
    /\ grpDone' = TRUE
    /\ UNCHANGED <<gDone, pending, nNotified, lst, g1, g2, queued, closed, upd>>
    /\ UNCHANGED <<g1Got, g2Got, handled>>
    /\ UNCHANGED exceptRun

\* A SetEntry or DeleteEntry commits: its notification reaches the
\* connection that listens.
Run_Notify ==
    /\ nNotified < MaxNotifications
    /\ lst = "waiting"
    /\ nNotified' = nNotified + 1
    /\ pending' = Append(pending, nNotified + 1)
    /\ UNCHANGED <<rootDone, grpDone, gDone, lst, g1, g2, queued, closed, upd>>
    /\ UNCHANGED <<g1Got, g2Got, handled>>
    /\ UNCHANGED exceptRun

\* runListener, lines 652-681: Acquire, Hijack, LISTEN, then the two
\* goroutines are started.  An error (always, once ctx is cancelled)
\* returns from runListener: Run closes a.entryUpdates and the error
\* cancels the context of grp.
Listener_Start ==
    /\ lst = "start"
    /\ \E ok \in BOOLEAN :
         /\ grpDone => ~ok
         /\ IF ok THEN /\ lst' = "waiting"
                       /\ UNCHANGED <<grpDone, gDone, g1, g2, closed>>
            ELSE /\ lst' = "returned"
                 /\ g1' = "done"
                 /\ g2' = "done"
                 /\ closed' = TRUE
                 /\ grpDone' = TRUE
                 /\ UNCHANGED gDone
    /\ UNCHANGED <<rootDone, pending, nNotified, queued, upd>>
    /\ UNCHANGED <<g1Got, g2Got, handled>>
    /\ UNCHANGED exceptRun

\* lines 685-690: pConn.WaitForNotification(gCtx) returns a notification
G1_Receive ==
    /\ lst = "waiting"
    /\ g1 = "wait"
    /\ pending # <<>>
    /\ g1Got' = Head(pending)
    /\ pending' = Tail(pending)
    /\ g1' = "send"
    /\ UNCHANGED <<rootDone, grpDone, gDone, nNotified, lst, g2, queued, closed, upd>>
    /\ UNCHANGED <<g2Got, handled>>
    /\ UNCHANGED exceptRun

\* lines 685-690: gCtx is cancelled, WaitForNotification returns its error
\* and the goroutine returns.
G1_Cancelled ==
    /\ lst = "waiting"
    /\ g1 = "wait"
    /\ GCtxDone
    /\ g1' = "done"
    /\ gDone' = TRUE
    /\ UNCHANGED <<rootDone, grpDone, pending, nNotified, lst, g2, queued, closed, upd>>
    /\ UNCHANGED <<g1Got, g2Got, handled>>
    /\ UNCHANGED exceptRun

\* lines 685-690: the connection fails, WaitForNotification returns the
\* error and the goroutine returns it, which cancels gCtx.
G1_ConnError ==
    /\ lst = "waiting"
    /\ g1 = "wait"
    /\ ~GCtxDone
    /\ g1' = "done"
    /\ gDone' = TRUE
    /\ UNCHANGED <<rootDone, grpDone, pending, nNotified, lst, g2, queued, closed, upd>>
    /\ UNCHANGED <<g1Got, g2Got, handled>>
    /\ UNCHANGED exceptRun

\* line 692 and lines 700-703: `received <- notification` meets
\* `case notification = <-received` (the channel has no buffer); the
\* notification is unmarshalled, lines 706-714.
G1_Send_G2_Receive ==
    /\ lst = "waiting"
    /\ g1 = "send"
    /\ g2 = "select"
    /\ g1' = "wait"
    /\ g2' = "send"
    /\ g2Got' = g1Got
    /\ g1Got' = 0
    /\ UNCHANGED <<rootDone, grpDone, gDone, pending, nNotified, lst, queued, closed, upd>>
    /\ UNCHANGED <<handled>>
    /\ UNCHANGED exceptRun

\* lines 700-702: `case <-ctx.Done()` with ctx the context of runListener;
\* the goroutine returns ctx.Err(), which cancels gCtx.
G2_Done ==
    /\ lst = "waiting"
    /\ g2 = "select"
    /\ grpDone
    /\ g2' = "done"
    /\ gDone' = TRUE
    /\ UNCHANGED <<rootDone, grpDone, pending, nNotified, lst, g1, queued, closed, upd>>
    /\ UNCHANGED <<g1Got, g2Got, handled>>
    /\ UNCHANGED exceptRun

\* Mutant of G2_Send: a send that gives up when the channel is full
\* (select with a default case), so the notification is dropped.
G2_Send_DropsWhenFull ==
    /\ lst = "waiting"
    /\ g2 = "send"
    /\ queued' = IF Len(queued) < EntryUpdatesCap THEN Append(queued, g2Got) ELSE queued
    /\ g2Got' = 0
    /\ g2' = "select"
    /\ UNCHANGED <<rootDone, grpDone, gDone, pending, nNotified, lst, g1, closed, upd>>
    /\ UNCHANGED <<g1Got, handled>>
    /\ UNCHANGED exceptRun

\* line 716: a.entryUpdates <- n, when the channel has room
G2_Send ==
    /\ lst = "waiting"
    /\ g2 = "send"
    /\ Len(queued) < EntryUpdatesCap
    /\ queued' = Append(queued, g2Got)
    /\ g2Got' = 0
    /\ g2' = "select"
    /\ UNCHANGED <<rootDone, grpDone, gDone, pending, nNotified, lst, g1, closed, upd>>
    /\ UNCHANGED <<g1Got, handled>>
    /\ UNCHANGED exceptRun

\* lines 721-726 and Run lines 267-269: grp.Wait() returns when both
\* goroutines have returned; the connection is closed, a.entryUpdates is
\* closed and the error cancels the context of grp.
Listener_Return ==
    /\ lst = "waiting"
    /\ g1 = "done"
    /\ g2 = "done"
    /\ lst' = "returned"
    /\ closed' = TRUE
    /\ grpDone' = TRUE
    /\ UNCHANGED <<rootDone, gDone, pending, nNotified, g1, g2, queued, upd>>
    /\ UNCHANGED <<g1Got, g2Got, handled>>
    /\ UNCHANGED exceptRun

\* Run, lines 273-276: preloadEntries; it fails when the store fails and
\* when ctx is cancelled, and the error cancels the context of grp.
Updater_Preloaded ==
    /\ upd = "preload"
    /\ \E ok \in BOOLEAN :
         /\ grpDone => ~ok
         /\ upd' = IF ok THEN "select" ELSE "done"
         /\ grpDone' = (grpDone \/ ~ok)
    /\ UNCHANGED <<rootDone, gDone, pending, nNotified, lst, g1, g2, queued, closed>>
    /\ UNCHANGED <<g1Got, g2Got, handled>>
    /\ UNCHANGED exceptRun

\* Run, lines 279-281: case <-ctx.Done()
Updater_Done ==
    /\ upd = "select"
    /\ grpDone
    /\ upd' = "done"
    /\ UNCHANGED <<rootDone, grpDone, gDone, pending, nNotified, lst, g1, g2, queued, closed>>
    /\ UNCHANGED <<g1Got, g2Got, handled>>
    /\ UNCHANGED exceptRun

\* Run, lines 282-286: a notification is received from a.entryUpdates,
\* which makes room in the channel, and handleEntryUpdate is called with it.
Updater_Take ==
    /\ upd = "select"
    /\ queued # <<>>
    /\ handled' = Append(handled, Head(queued))
    /\ queued' = Tail(queued)
    /\ upd' = "handle"
    /\ UNCHANGED <<rootDone, grpDone, gDone, pending, nNotified, lst, g1, g2, closed>>
    /\ UNCHANGED <<g1Got, g2Got>>
    /\ UNCHANGED exceptRun

\* Run, lines 286-290: handleEntryUpdate returns; its error ends the task
\* and cancels the context of grp.
Updater_Handled ==
    /\ upd = "handle"
    /\ \E ok \in BOOLEAN :
         /\ upd' = IF ok THEN "select" ELSE "done"
         /\ grpDone' = (grpDone \/ ~ok)
    /\ UNCHANGED <<rootDone, gDone, pending, nNotified, lst, g1, g2, queued, closed>>
    /\ UNCHANGED <<g1Got, g2Got, handled>>
    /\ UNCHANGED exceptRun

\* Run, lines 282-285: a.entryUpdates is closed and empty
Updater_ChannelClosed ==
    /\ upd = "select"
    /\ queued = <<>>
    /\ closed
    /\ upd' = "done"
    /\ UNCHANGED <<rootDone, grpDone, gDone, pending, nNotified, lst, g1, g2, queued, closed>>
    /\ UNCHANGED <<g1Got, g2Got, handled>>
    /\ UNCHANGED exceptRun

\* The steps of the tasks, which the scheduler takes when they can be taken.
TaskStep ==
    \/ Listener_Start \/ G1_Receive \/ G1_Cancelled \/ G1_Send_G2_Receive
    \/ G2_Done \/ G2_Send \/ Listener_Return
    \/ Updater_Preloaded \/ Updater_Done \/ Updater_Take \/ Updater_Handled
    \/ Updater_ChannelClosed

RunNext == Run_Cancel \/ Run_Notify \/ G1_ConnError \/ TaskStep

----------------------------------------------------------------------------
(* The residue buffers.  s.bufs is a puddle pool: Acquire hands out an idle  *)
(* buffer or constructs one while fewer than MaxSize exist, and otherwise    *)
(* waits, in order of arrival, for a Release or for the end of the context.  *)

\* Number of Check calls made on the Spellcheck
MaxChecks == 12

\* puddle.Config.MaxSize
PoolMaxSize == 10

\* The Spellcheck the calls are made on: one phrase with one form.
PoolSpellcheck ==
    AddPhraseF([trie |-> EmptyTrie, mistakeTrie |-> EmptyTrie, hunspell |-> BaseDictionary],
               [Text |-> B, Description |-> "d1", CommonMistakes |-> <<>>,
                Level |-> "error", Forms |-> (<<"b", "a">> :> AA)])

\* Texts: empty, without a match of the overlay (accepted, misspelled), and
\* with one (the phrase, a form key).
PoolTexts == {<<>>, A, <<"b", "b">>, B, <<"b", "a", " ", "a", "b">>}

\* The overlay loop of Check on each of the texts, and the result of Check
PoolOverlay == [text \in PoolTexts |-> CheckOverlay(PoolSpellcheck, text, FALSE)]

PoolResult == [text \in PoolTexts |-> Check(PoolSpellcheck, text, FALSE)]

\* len(replacements) > 0 after the overlay loop
NeedsBuffer(text) ==
    text # <<>> /\ Len(PoolOverlay[text].replacements) > 0

\* What Check returns: a result and no error, or no result and an error.
CheckReturn(text, acquired, err) ==
    [op |-> "Check", text |-> text, acquired |-> acquired, err |-> err,
     res |-> IF err = "" THEN PoolResult[text] ELSE <<"nil">>]

\* Mutant of Release: nothing is given back when Check fails.
Release_NotOnError(pool, queue, err) ==
    IF err # "" THEN [bufs |-> pool, granted |-> {}]
    ELSE IF queue # <<>> THEN [bufs |-> pool, granted |-> {Head(queue)}]
    ELSE [bufs |-> [acquired |-> pool.acquired - 1, idle |-> pool.idle + 1],
          granted |-> {}]

\* defer bufRes.Release(): the buffer goes to the first call waiting, and
\* becomes idle when none waits.
Release(pool, queue, err) ==
    IF queue # <<>> THEN [bufs |-> pool, granted |-> {Head(queue)}]
    ELSE [bufs |-> [acquired |-> pool.acquired - 1, idle |-> pool.idle + 1],
          granted |-> {}]

PoolInit ==
    /\ bufs = [acquired |-> 0, idle |-> 0]
    /\ bufQueue = <<>>
    /\ holding = EmptyBag
    /\ chk = <<>>
    /\ nChecks = 0
    /\ lastCheck = [op |-> "none"]

\* Check is called with a context that is or is not done.  The call runs
\* to its return when it needs no buffer or gets none, and to the base pass
\* or into the queue of Acquire otherwise.
Check_Call ==
    /\ nChecks < MaxChecks
    /\ nChecks' = nChecks + 1
    /\ \E text \in PoolTexts, ctxDone \in BOOLEAN :
         IF ~NeedsBuffer(text)
         THEN /\ lastCheck' = CheckReturn(text, FALSE, "")
              /\ UNCHANGED <<bufs, bufQueue, holding, chk>>
         ELSE IF ctxDone
         THEN /\ lastCheck' = CheckReturn(text, FALSE, "acquire buffer pool")
              /\ UNCHANGED <<bufs, bufQueue, holding, chk>>
         ELSE IF bufs.idle > 0
         THEN /\ bufs' = [acquired |-> bufs.acquired + 1, idle |-> bufs.idle - 1]
              /\ holding' = holding (+) SetToBag({text})
              /\ UNCHANGED <<bufQueue, chk, lastCheck>>
         ELSE IF bufs.acquired < PoolMaxSize
         THEN /\ bufs' = [bufs EXCEPT !.acquired = @ + 1]
              /\ holding' = holding (+) SetToBag({text})
              /\ UNCHANGED <<bufQueue, chk, lastCheck>>
         ELSE /\ bufQueue' = Append(bufQueue, nChecks + 1)
              /\ chk' = chk @@ ((nChecks + 1) :> text)
              /\ UNCHANGED <<bufs, holding, lastCheck>>
    /\ UNCHANGED exceptPool

\* The context of a call waiting in Acquire ends: Acquire returns the
\* error of the context and Check returns.
Check_AcquireCancelled ==
    /\ \E c \in DOMAIN chk :
         /\ bufQueue' = SelectSeq(bufQueue, LAMBDA w : w # c)
         /\ chk' = [d \in DOMAIN chk \ {c} |-> chk[d]]
         /\ lastCheck' = CheckReturn(chk[c], FALSE, "acquire buffer pool")
    /\ UNCHANGED <<bufs, holding, nChecks>>
    /\ UNCHANGED exceptPool

\* The base pass of a call ends, with or without an error of the
\* segmenter; Check returns and the deferred Release runs.
Check_Return ==
    /\ \E text \in BagToSet(holding), err \in {"", "split into words"} :
         LET rel == Release(bufs, bufQueue, err) IN
         /\ bufs' = rel.bufs
         /\ bufQueue' = SelectSeq(bufQueue, LAMBDA w : w \notin rel.granted)
         /\ holding' = (holding (-) SetToBag({text}))
                          (+) SetToBag({chk[d] : d \in rel.granted})
         /\ chk' = [d \in DOMAIN chk \ rel.granted |-> chk[d]]
         /\ lastCheck' = CheckReturn(text, TRUE, err)
    /\ UNCHANGED nChecks
    /\ UNCHANGED exceptPool

PoolNext == Check_Call \/ Check_AcquireCancelled \/ Check_Return

----------------------------------------------------------------------------
(* The locks of one Spellcheck: s.m (a sync.RWMutex), c.m of its Checker (a *)
(* sync.Mutex) and the buffers of s.bufs, taken by concurrent calls, one    *)
(* for each goroutine.  The places of a call:                               *)
(*   "RLock"   at s.m.RLock()                                               *)
(*   "RLockWait" in s.m.RLock(), blocked by a writer that announced itself  *)
(*   "read"    between s.m.RLock() and s.m.RUnlock()                        *)
(*   "Acquire" in s.bufs.Acquire(ctx)                                       *)
(*   "Lock"    in s.m.Lock(), before it has won over the other writers      *)
(*   "LockWait" in s.m.Lock(), announced and waiting for the readers        *)
(*   "mutate"  between s.m.Lock() and the first call of the Checker         *)
(*   "cmLock"  in c.m.Lock() of a call of the Checker                       *)
(*   "native"  between c.m.Lock() and c.m.Unlock()                          *)
(*   "Release" before the deferred bufRes.Release() of Check                *)
(*   "Unlock"  before s.m.Unlock() of AddPhrase and RemovePhrase            *)
(* How many calls of the Checker a method makes depends on its input and on *)
(* the tries; every number up to MaxCheckerCalls is explored.               *)

\* Goroutines that call Check.
MaxCheckCalls == 2

\* Goroutines that call each of Suggestions, AddPhrase and RemovePhrase.
MaxOtherCalls == 1

\* Largest number of calls of the Checker in one call of a method.
MaxCheckerCalls == 2

ReadMethods == {"Check", "Suggestions"}

WriteMethods == {"AddPhrase", "RemovePhrase"}

\* The goroutines: the method each calls, and a number.
LockCallers ==
    ({"Check"} \X (1..MaxCheckCalls))
    \cup ({"Suggestions", "AddPhrase", "RemovePhrase"} \X (1..MaxOtherCalls))

MethodOf(g) == g[1]

\* The numbers of Checker calls the method can make once the tries are
\* read or changed: Check, Spell for each word left and Suggest for those
\* rejected; Suggestions, none for a text with a space, else Spell and then
\* Suggest when rejected; AddPhrase, Add for the text and each form and
\* Remove for each old form; RemovePhrase, none when there is no phrase,
\* else Remove for the text and each form.
CheckerCallsOf(method) ==
    CASE method = "Check"        -> 0..MaxCheckerCalls
      [] method = "Suggestions"  -> 0..Min({2, MaxCheckerCalls})
      [] method = "AddPhrase"    -> 1..MaxCheckerCalls
      [] method = "RemovePhrase" -> 0..MaxCheckerCalls

At(g, pc, left) == [lkAt EXCEPT ![g] = [pc |-> pc, left |-> left]]

LockInit ==
    /\ lkAt = [g \in LockCallers |-> [pc |-> "idle", left |-> 0]]
    /\ lkM = [readers |-> {}, writer |-> {}, pending |-> {}, blocked |-> {}]
    /\ lkCM = {}
    /\ lkBufs = {}

\* A goroutine calls the method and reaches its first lock; Check of the
\* empty text returns at once (line 137).
Lk_Call(g) ==
    /\ lkAt[g].pc = "idle"
    /\ \E empty \in BOOLEAN :
         /\ empty => MethodOf(g) = "Check"
         /\ lkAt' = At(g, IF empty THEN "done"
                          ELSE IF MethodOf(g) \in ReadMethods THEN "RLock"
                          ELSE "Lock", 0)
    /\ UNCHANGED <<lkM, lkCM, lkBufs>>
    /\ UNCHANGED exceptLock

\* s.m.RLock(): the reader is counted; it goes on when no writer has
\* announced itself (none holds s.m, none waits for the readers to leave)
\* and blocks otherwise, until that writer unlocks.
Lk_RLock(g) ==
    /\ lkAt[g].pc = "RLock"
    /\ IF lkM.writer = {} /\ lkM.pending = {}
       THEN /\ lkM' = [lkM EXCEPT !.readers = @ \cup {g}]
            /\ lkAt' = At(g, "read", 0)
       ELSE /\ lkM' = [lkM EXCEPT !.blocked = @ \cup {g}]
            /\ lkAt' = At(g, "RLockWait", 0)
    /\ UNCHANGED <<lkCM, lkBufs>>
    /\ UNCHANGED exceptLock

\* s.m.RUnlock() (lines 205 and 316).  Check with replacements goes on to
\* acquire a buffer (line 214); without, and Suggestions, to the first call
\* of the Checker, or to the return when there is none to make.
Lk_RUnlock(g) ==
    /\ lkAt[g].pc = "read"
    /\ lkM' = [lkM EXCEPT !.readers = @ \ {g}]
    /\ \E n \in CheckerCallsOf(MethodOf(g)), replacements \in BOOLEAN :
         /\ replacements => MethodOf(g) = "Check"
         /\ lkAt' = At(g, IF replacements THEN "Acquire"
                          ELSE IF n > 0 THEN "cmLock"
                          ELSE "done", n)
    /\ UNCHANGED <<lkCM, lkBufs>>
    /\ UNCHANGED exceptLock

\* s.bufs.Acquire(ctx) returns a buffer, fewer than MaxSize being acquired,
\* or the error of a context that is done, and Check returns it (line 216).
Lk_Acquire(g) ==
    /\ lkAt[g].pc = "Acquire"
    /\ \E ok \in BOOLEAN :
         IF ok
         THEN /\ Cardinality(lkBufs) < PoolMaxSize
              /\ lkBufs' = lkBufs \cup {g}
              /\ lkAt' = At(g, IF lkAt[g].left > 0 THEN "cmLock" ELSE "Release",
                            lkAt[g].left)
         ELSE /\ lkAt' = At(g, "done", 0)
              /\ UNCHANGED lkBufs
    /\ UNCHANGED <<lkM, lkCM>>
    /\ UNCHANGED exceptLock

\* s.m.Lock() (lines 58 and 105), first half: the writer wins over the
\* other writers and announces itself to the readers.
Lk_Lock(g) ==
    /\ lkAt[g].pc = "Lock"
    /\ lkM.writer = {} /\ lkM.pending = {}
    /\ lkM' = [lkM EXCEPT !.pending = {g}]
    /\ lkAt' = At(g, "LockWait", 0)
    /\ UNCHANGED <<lkCM, lkBufs>>
    /\ UNCHANGED exceptLock

\* s.m.Lock() returns: the active readers have left.
Lk_Locked(g) ==
    /\ lkAt[g].pc = "LockWait"
    /\ lkM.readers = {}
    /\ lkM' = [lkM EXCEPT !.writer = {g}, !.pending = {}]
    /\ lkAt' = At(g, "mutate", 0)
    /\ UNCHANGED <<lkCM, lkBufs>>
    /\ UNCHANGED exceptLock

\* AddPhrase, lines 60-75, and RemovePhrase, lines 108-115: with s.m held
\* the Phrase at the text is looked up; RemovePhrase returns when there is
\* none (line 112), else the method comes to its first call of the Checker.
Lk_Mutate(g) ==
    /\ lkAt[g].pc = "mutate"
    /\ \E n \in CheckerCallsOf(MethodOf(g)) :
         lkAt' = At(g, IF n > 0 THEN "cmLock" ELSE "Unlock", n)
    /\ UNCHANGED <<lkM, lkCM, lkBufs>>
    /\ UNCHANGED exceptLock

\* c.m.Lock() returns: nobody holds c.m.
Lk_CheckerLock(g) ==
    /\ lkAt[g].pc = "cmLock"
    /\ lkCM = {}
    /\ lkCM' = {g}
    /\ lkAt' = At(g, "native", lkAt[g].left)
    /\ UNCHANGED <<lkM, lkBufs>>
    /\ UNCHANGED exceptLock

\* Where a call goes after its last call of the Checker
AfterChecker(g) ==
    IF MethodOf(g) \in WriteMethods THEN "Unlock"
    ELSE IF g \in lkBufs THEN "Release"
    ELSE "done"

\* c.m.Unlock(): the call of the Checker returns to the method, which makes
\* its next one, still holding s.m or its buffer, or comes to its end.
Lk_CheckerUnlock(g) ==
    /\ lkAt[g].pc = "native"
    /\ lkCM' = {}
    /\ lkAt' = At(g, IF lkAt[g].left > 1 THEN "cmLock" ELSE AfterChecker(g),
                  lkAt[g].left - 1)
    /\ UNCHANGED <<lkM, lkBufs>>
    /\ UNCHANGED exceptLock

\* s.m.Unlock(): the readers that blocked meanwhile are let in, and then the
\* writers that wait may go on.
Unlocked(m) == [m EXCEPT !.writer = {}, !.readers = m.blocked, !.blocked = {}]

\* Mutant of Lk_Return: AddPhrase returns with s.m locked.
Lk_Return_AddKeepsLock(g) ==
    /\ lkAt[g].pc \in {"Release", "Unlock"}
    /\ lkBufs' = lkBufs \ {g}
    /\ LET unlocks == lkAt[g].pc = "Unlock" /\ MethodOf(g) # "AddPhrase" IN
       /\ lkM' = IF unlocks THEN Unlocked(lkM) ELSE lkM
       /\ lkAt' = [h \in LockCallers |->
                     IF h = g THEN [pc |-> "done", left |-> 0]
                     ELSE IF unlocks /\ h \in lkM.blocked THEN [pc |-> "read", left |-> 0]
                     ELSE lkAt[h]]
    /\ UNCHANGED lkCM
    /\ UNCHANGED exceptLock

\* The method returns: the deferred bufRes.Release() of Check (line 219),
\* s.m.Unlock() of AddPhrase (line 101) and of RemovePhrase (deferred, line
\* 106).
Lk_Return(g) ==
    /\ lkAt[g].pc \in {"Release", "Unlock"}
    /\ lkBufs' = lkBufs \ {g}
    /\ LET unlocks == lkAt[g].pc = "Unlock" IN
       /\ lkM' = IF unlocks THEN Unlocked(lkM) ELSE lkM
       /\ lkAt' = [h \in LockCallers |->
                     IF h = g THEN [pc |-> "done", left |-> 0]
                     ELSE IF unlocks /\ h \in lkM.blocked THEN [pc |-> "read", left |-> 0]
                     ELSE lkAt[h]]
    /\ UNCHANGED lkCM
    /\ UNCHANGED exceptLock

\* A step of a call that has started.
LockStep ==
    \E g \in LockCallers :
        \/ Lk_RLock(g) \/ Lk_RUnlock(g) \/ Lk_Acquire(g)
        \/ Lk_Lock(g) \/ Lk_Locked(g) \/ Lk_Mutate(g)
        \/ Lk_CheckerLock(g) \/ Lk_CheckerUnlock(g) \/ Lk_Return(g)

LockNext == (\E g \in LockCallers : Lk_Call(g)) \/ LockStep

----------------------------------------------------------------------------
(* One hunspell Checker called from several goroutines.  c.m is a           *)
(* sync.Mutex; a call into the library lasts from its entry to its return.   *)

\* The goroutines calling the Checker; each makes call after call.
HunThreads == {"h1", "h2"}

\* The dictionary files of this handle: the base words and one word with an
\* affix rule.
HunDictionary == BaseDictionary \cup {AffixRoot[w] : w \in DOMAIN AffixRoot}

HunCalls ==
    [op : {"Spell", "Suggest", "Add", "Remove", "Stem"}, word : {A, B}]
        \cup [op : {"Spell", "Stem"}, word : DOMAIN AffixRoot]

\* Checker.Stem: the stems of the word, a word of the dictionary being its
\* own stem and an inflected form having the word it is built from.
HunspellStem(h, word) ==
    IF word \in h THEN <<word>>
    ELSE IF word \in Inflected(h) THEN <<AffixRoot[word]>>
    ELSE <<>>

\* The operations whose result is a list owned by the library
ReturnsList(op) == op \in {"Suggest", "Stem"}

\* The goroutines that are inside a function of the library
InNative == {t \in HunThreads : hth[t].pc \in {"native", "free_list"}}

HunInit ==
    /\ handle = HunDictionary
    /\ cmx = {}
    /\ hth = [t \in HunThreads |-> [pc |-> "idle"]]

\* A method of the Checker is called: the word is copied to a C string.
Checker_Call(t) ==
    /\ hth[t].pc = "idle"
    /\ \E call \in HunCalls : hth' = [hth EXCEPT ![t] = [pc |-> "Lock", call |-> call]]
    /\ UNCHANGED <<handle, cmx>>
    /\ UNCHANGED exceptHun

\* c.m.Lock()
Checker_Lock(t) ==
    /\ hth[t].pc = "Lock"
    /\ cmx = {}
    /\ cmx' = {t}
    /\ hth' = [hth EXCEPT ![t].pc = "call"]
    /\ UNCHANGED handle
    /\ UNCHANGED exceptHun

\* The function of the library is entered.
Checker_Enter(t) ==
    /\ hth[t].pc = "call"
    /\ hth' = [hth EXCEPT ![t].pc = "native"]
    /\ UNCHANGED <<handle, cmx>>
    /\ UNCHANGED exceptHun

\* The function of the library returns.
Checker_Leave(t) ==
    /\ hth[t].pc = "native"
    /\ LET call == hth[t].call
           res  == CASE call.op = "Spell"   -> HunspellSpell(handle, call.word)
                     [] call.op = "Suggest" -> HunspellSuggest(handle, call.word)
                     [] call.op = "Stem"    -> HunspellStem(handle, call.word)
                     [] OTHER               -> TRUE
       IN /\ handle' = CASE call.op = "Add"    -> HunspellAdd(handle, {call.word})
                         [] call.op = "Remove" -> HunspellRemove(handle, {call.word})
                         [] OTHER              -> handle
          /\ hth' = [hth EXCEPT ![t] = [pc |-> "Unlock", call |-> call, res |-> res]]
    /\ UNCHANGED cmx
    /\ UNCHANGED exceptHun

\* c.m.Unlock(); Spell, Add and Remove return, Suggest and Stem copy the
\* list into Go strings.
Checker_Unlock(t) ==
    /\ hth[t].pc = "Unlock"
    /\ cmx' = {}
    /\ hth' = [hth EXCEPT ![t] = IF ReturnsList(hth[t].call.op)
                                  THEN [hth[t] EXCEPT !.pc = "copied"]
                                  ELSE [pc |-> "idle"]]
    /\ UNCHANGED handle
    /\ UNCHANGED exceptHun

\* Suggest and Stem return: the deferred C.Hunspell_free_list(c.handle, ...)
\* is entered.
Checker_FreeListEnter(t) ==
    /\ hth[t].pc = "copied"
    /\ hth' = [hth EXCEPT ![t].pc = "free_list"]
    /\ UNCHANGED <<handle, cmx>>
    /\ UNCHANGED exceptHun

\* C.Hunspell_free_list returns, and with it the call.
Checker_FreeListLeave(t) ==
    /\ hth[t].pc = "free_list"
    /\ hth' = [hth EXCEPT ![t] = [pc |-> "idle"]]
    /\ UNCHANGED <<handle, cmx>>
    /\ UNCHANGED exceptHun

HunNext ==
    \E t \in HunThreads :
        \/ Checker_Call(t) \/ Checker_Lock(t) \/ Checker_Enter(t) \/ Checker_Leave(t)
        \/ Checker_Unlock(t) \/ Checker_FreeListEnter(t) \/ Checker_FreeListLeave(t)

----------------------------------------------------------------------------
(* One Spellcheck called from several goroutines.  s.m is a sync.RWMutex:   *)
(* any number of readers or one writer hold it.  A writer first wins over   *)
(* the other writers and announces itself, then waits for the readers that  *)
(* hold s.m; RLock blocks while a writer is announced or holds s.m, and     *)
(* Unlock lets the blocked readers in before the next writer.  Every call   *)
(* of the checker takes the mutex of the checker for itself, so a call of   *)
(* hunspell is one step.                                                    *)

\* The goroutines calling Check and Suggestions, and those calling
\* AddPhrase and RemovePhrase; each makes one call.
Readers == {"r1", "r2"}

Writers == {"w1", "w2"}

\* A phrase and its replacement: the correct form "aa" becomes "ab".
ConcPhrases ==
    { [Text |-> B, Description |-> "d1", CommonMistakes |-> <<>>,
       Level |-> "error", Forms |-> (<<"b", "a">> :> AA)],
      [Text |-> B, Description |-> "d2", CommonMistakes |-> <<>>,
       Level |-> "error", Forms |-> (<<"b", "a">> :> AB)] }

\* The calls of the readers
ReadCalls ==
    { [op |-> "Check", text |-> <<"a", "a", " ", "a", "b">>, withSuggestions |-> FALSE],
      [op |-> "Check", text |-> <<"b", "a">>, withSuggestions |-> TRUE],
      [op |-> "Suggestions", text |-> <<"b", "a">>, withSuggestions |-> TRUE] }

\* The calls of the writers
WriteCalls ==
    {[op |-> "AddPhrase", p |-> p] : p \in ConcPhrases}
    \cup {[op |-> "RemovePhrase", text |-> t] : t \in {B, AA}}

\* Suggestions, lines 291-314: the part read from the mistake trie
SuggestionsOverlay(st, text) ==
    IF TrieHas(st.mistakeTrie, text)
    THEN OverlaySuggestions(st.mistakeTrie[text], text) ELSE <<>>

\* What a call of a reader returns when all of it runs in state st.
ReadResultIn(st, call) ==
    IF call.op = "Check" THEN Check(st, call.text, call.withSuggestions)
    ELSE Suggestions(st, call.text)

\* Mutant of CanLock: Lock does not wait for the readers.
CanLock_IgnoresReaders(m) == m.writer = {}

\* s.m.Lock() returns when nobody holds the mutex.
CanLock(m) == m.writer = {} /\ m.readers = {}

\* s.m.RLock() returns at once when no writer has announced itself: none
\* holds the mutex and none waits for the readers to leave.  A writer that
\* waits for another writer has not announced itself.
CanRLock(m) == m.writer = {} /\ m.pending = {}

Idle == [pc |-> "idle"]

ConcInit ==
    /\ shared = [trie |-> EmptyTrie, mistakeTrie |-> EmptyTrie, hunspell |-> BaseDictionary]
    /\ committed = [before |-> shared, after |-> shared, kind |-> "none"]
    /\ rwm = [readers |-> {}, writer |-> {}, pending |-> {}, blocked |-> {}]
    /\ th = [t \in Readers \cup Writers |-> Idle]

\* A goroutine calls Check or Suggestions.
Reader_Call(t) ==
    /\ th[t].pc = "idle"
    /\ \E call \in ReadCalls :
         th' = [th EXCEPT ![t] = [pc |-> "RLock", call |-> call,
                                  linear |-> {ReadResultIn(committed.before, call),
                                              ReadResultIn(committed.after, call)},
                                  overlaps |-> {committed.kind} \ {"none"}]]
    /\ UNCHANGED <<shared, committed, rwm>>
    /\ UNCHANGED exceptConc

\* s.m.RLock(): the reader is counted; it goes on when no writer has
\* announced itself and blocks otherwise, until that writer unlocks.
Reader_RLock(t) ==
    /\ th[t].pc = "RLock"
    /\ IF CanRLock(rwm)
       THEN /\ rwm' = [rwm EXCEPT !.readers = @ \cup {t}]
            /\ th' = [th EXCEPT ![t].pc = "read"]
       ELSE /\ rwm' = [rwm EXCEPT !.blocked = @ \cup {t}]
            /\ th' = [th EXCEPT ![t].pc = "RLockWait"]
    /\ UNCHANGED <<shared, committed>>
    /\ UNCHANGED exceptConc

\* Check, lines 145-203, and Suggestions, lines 293-312: the tries are read.
Reader_Tries(t) ==
    /\ th[t].pc = "read"
    /\ LET call == th[t].call
           got  == IF call.op = "Check"
                   THEN CheckOverlay(shared, call.text, call.withSuggestions)
                   ELSE [entries |-> SuggestionsOverlay(shared, call.text),
                         replacements |-> <<>>]
       IN th' = [th EXCEPT ![t] = [pc |-> "RUnlock", call |-> call,
                                   linear |-> th[t].linear,
                                   overlaps |-> th[t].overlaps, got |-> got]]
    /\ UNCHANGED <<shared, committed, rwm>>
    /\ UNCHANGED exceptConc

\* The words the second pass of Check hands to hunspell, each once (the seen
\* map, lines 233-247).
DistinctWords(toks) ==
    LET first == SelectSeq([i \in 1..Len(toks) |-> i],
                           LAMBDA i : /\ toks[i].Type = "Letter"
                                      /\ \A j \in 1..(i - 1) :
                                            toks[j].Type # "Letter"
                                            \/ toks[j].Text # toks[i].Text)
    IN [n \in 1..Len(first) |-> toks[first[n]].Text]

\* The words a call asks hunspell about once the tries are read: Check, the
\* words of the residue; Suggestions, the text when it has no space.
BaseWords(call, got) ==
    IF call.op = "Check"
    THEN DistinctWords(Tokens(Residue(got.replacements, call.text)))
    ELSE IF ContainsChar(call.text, " ") THEN <<>> ELSE <<call.text>>

\* Where a call goes once it is through with the k-th word
AfterWord(r) == IF r.k < Len(r.words) THEN "Spell" ELSE "return"

\* s.m.RUnlock()
Reader_RUnlock(t) ==
    /\ th[t].pc = "RUnlock"
    /\ rwm' = [rwm EXCEPT !.readers = @ \ {t}]
    /\ LET words == BaseWords(th[t].call, th[t].got)
       IN th' = [th EXCEPT ![t] = [pc |-> IF words = <<>> THEN "return" ELSE "Spell",
                                   call |-> th[t].call,
                                   linear |-> th[t].linear,
                                   overlaps |-> th[t].overlaps,
                                   words |-> words, k |-> 1,
                                   entries |-> th[t].got.entries]]
    /\ UNCHANGED <<shared, committed>>
    /\ UNCHANGED exceptConc

\* Check, line 250, and Suggestions, line 319: s.hunspell.Spell for the next
\* word.  (Two calls never exhaust the pool of ten buffers.)
Reader_Spell(t) ==
    /\ th[t].pc = "Spell"
    /\ LET r    == th[t]
           word == r.words[r.k]
       IN th' = [th EXCEPT ![t] =
                   IF HunspellSpell(shared.hunspell, word)
                   THEN [r EXCEPT !.pc = AfterWord(r), !.k = @ + 1]
                   ELSE IF r.call.withSuggestions
                   THEN [r EXCEPT !.pc = "Suggest"]
                   ELSE [r EXCEPT !.pc = AfterWord(r), !.k = @ + 1,
                                  !.entries = Append(@, [Text |-> word,
                                                         Level |-> "LEVEL_ERROR",
                                                         Suggestions |-> <<>>])]]
    /\ UNCHANGED <<shared, committed, rwm>>
    /\ UNCHANGED exceptConc

\* Check, line 259, and Suggestions, line 320: s.hunspell.Suggest for the
\* word that Spell rejected.
Reader_Suggest(t) ==
    /\ th[t].pc = "Suggest"
    /\ LET r    == th[t]
           word == r.words[r.k]
           hs   == HunspellSuggest(shared.hunspell, word)
           sugg == [i \in 1..Len(hs) |-> [Text |-> hs[i], Description |-> ""]]
       IN th' = [th EXCEPT ![t] =
                   [r EXCEPT !.pc = AfterWord(r), !.k = @ + 1,
                             !.entries = IF r.call.op = "Check"
                                         THEN Append(@, [Text |-> word,
                                                         Level |-> "LEVEL_ERROR",
                                                         Suggestions |-> sugg])
                                         ELSE @ \o sugg]]
    /\ UNCHANGED <<shared, committed, rwm>>
    /\ UNCHANGED exceptConc

\* Check, line 282, and Suggestions, line 327: the call returns.
Reader_Return(t) ==
    /\ th[t].pc = "return"
    /\ th' = [th EXCEPT ![t] = [pc |-> "done", call |-> th[t].call,
                                linear |-> th[t].linear,
                                overlaps |-> th[t].overlaps,
                                res |-> th[t].entries]]
    /\ UNCHANGED <<shared, committed, rwm>>
    /\ UNCHANGED exceptConc

\* The statements of AddPhrase and RemovePhrase that change the tries or the
\* checker, in the order of the code.  The forms of a Phrase are a Go map,
\* ranged over in an order of the runtime's choosing.
FormOrders(p) ==
    {o \in [1..Cardinality(FormKeys(p)) -> FormKeys(p)] : Range(o) = FormKeys(p)}

Stmt(do, key) == [do |-> do, key |-> key]

\* AddPhrase, lines 62-72: the keys of the old Phrase
RemoveOldStmts(old, order) ==
    [i \in 1..Len(old.CommonMistakes) |-> Stmt("mistakeTrie.Delete", old.CommonMistakes[i])]
    \o Flatten([i \in 1..Len(order) |->
                  << Stmt("trie.Delete", old.Forms[order[i]]),
                     Stmt("hunspell.Remove", old.Forms[order[i]]),
                     Stmt("mistakeTrie.Delete", order[i]) >>])

\* AddPhrase, lines 74-99: the keys of the new Phrase
InstallStmts(p, order) ==
    << Stmt("trie.Put", p.Text), Stmt("hunspell.Add", p.Text) >>
    \o [i \in 1..Len(Installed(p).CommonMistakes) |->
          Stmt("mistakeTrie.Put", Installed(p).CommonMistakes[i])]
    \o Flatten([i \in 1..Len(order) |->
                  << Stmt("trie.Put", p.Forms[order[i]]),
                     Stmt("hunspell.Add", p.Forms[order[i]]),
                     Stmt("mistakeTrie.Put", order[i]) >>])

\* RemovePhrase, lines 115-126, p being the Phrase the trie holds for the
\* text: the text of the call, then the mistakes and forms of p.
RemovePhraseStmts(text, p, order) ==
    << Stmt("hunspell.Remove", text), Stmt("trie.Delete", text) >>
    \o [i \in 1..Len(p.CommonMistakes) |-> Stmt("mistakeTrie.Delete", p.CommonMistakes[i])]
    \o Flatten([i \in 1..Len(order) |->
                  << Stmt("trie.Delete", p.Forms[order[i]]),
                     Stmt("hunspell.Remove", p.Forms[order[i]]),
                     Stmt("mistakeTrie.Delete", order[i]) >>])

\* One statement, q being the Phrase that is put
DoStmt(st, stmt, q) ==
    CASE stmt.do = "trie.Put"           -> [st EXCEPT !.trie = TriePut(@, stmt.key, q)]
      [] stmt.do = "trie.Delete"        -> [st EXCEPT !.trie = TrieDelete(@, stmt.key)]
      [] stmt.do = "mistakeTrie.Put"    -> [st EXCEPT !.mistakeTrie = TriePut(@, stmt.key, q)]
      [] stmt.do = "mistakeTrie.Delete" -> [st EXCEPT !.mistakeTrie = TrieDelete(@, stmt.key)]
      [] stmt.do = "hunspell.Add"       -> [st EXCEPT !.hunspell = HunspellAdd(@, {stmt.key})]
      [] stmt.do = "hunspell.Remove"    -> [st EXCEPT !.hunspell = HunspellRemove(@, {stmt.key})]

RECURSIVE DoStmts(_, _, _)
DoStmts(st, stmts, q) ==
    IF stmts = <<>> THEN st ELSE DoStmts(DoStmt(st, Head(stmts), q), Tail(stmts), q)

\* The statements up to the second call of the Checker: the tries are seen
\* by nobody while s.m is held, the checker is.
UpToNextCall(stmts) ==
    LET at == {i \in 1..Len(stmts) :
                 stmts[i].do \in {"hunspell.Add", "hunspell.Remove"}}
    IN IF Cardinality(at) <= 1 THEN Len(stmts)
       ELSE Min(at \ {Min(at)}) - 1

\* A goroutine calls AddPhrase or RemovePhrase.
Writer_Call(t) ==
    /\ th[t].pc = "idle"
    /\ \E call \in WriteCalls : th' = [th EXCEPT ![t] = [pc |-> "Lock", call |-> call]]
    /\ UNCHANGED <<shared, committed, rwm>>
    /\ UNCHANGED exceptConc

\* s.m.Lock(), first half: the writer wins over the other writers and
\* announces itself to the readers.
Writer_Lock(t) ==
    /\ th[t].pc = "Lock"
    /\ rwm.writer = {} /\ rwm.pending = {}
    /\ rwm' = [rwm EXCEPT !.pending = {t}]
    /\ th' = [th EXCEPT ![t].pc = "LockWait"]
    /\ UNCHANGED <<shared, committed>>
    /\ UNCHANGED exceptConc

\* s.m.Lock() returns once the active readers have left, and the Get of the
\* Phrase at the text (lines 60 and 108-113).  Every call of a reader that
\* is under way overlaps the update, and may be taken to run before it or
\* after it.
Writer_Locked(t) ==
    /\ th[t].pc = "LockWait"
    /\ CanLock(rwm)
    /\ rwm' = [rwm EXCEPT !.writer = {t}, !.pending = {}]
    /\ LET call  == th[t].call
           text  == IF call.op = "AddPhrase" THEN call.p.Text ELSE call.text
           found == TrieHas(shared.trie, text)
           after == IF call.op = "AddPhrase" THEN AddPhraseF(shared, call.p)
                    ELSE RemovePhraseF(shared, call.text)
           kind  == IF call.op = "RemovePhrase" THEN "remove"
                    ELSE IF found THEN "replace"
                    ELSE "add"
       IN /\ committed' = [before |-> shared, after |-> after, kind |-> kind]
          /\ \E oldOrder \in IF found THEN FormOrders(shared.trie[text]) ELSE {<<>>},
                newOrder \in IF call.op = "AddPhrase" THEN FormOrders(call.p) ELSE {<<>>} :
               LET removes  == IF ~found THEN <<>>
                               ELSE IF call.op = "AddPhrase"
                               THEN RemoveOldStmts(shared.trie[text], oldOrder)
                               ELSE RemovePhraseStmts(text, shared.trie[text], oldOrder)
                   installs == IF call.op = "AddPhrase"
                               THEN InstallStmts(call.p, newOrder) ELSE <<>>
               IN th' = [u \in DOMAIN th |->
                          IF u = t
                          THEN [pc |-> IF removes # <<>> THEN "remove"
                                       ELSE IF installs # <<>> THEN "install"
                                       ELSE "Unlock",
                                call |-> call, removes |-> removes,
                                installs |-> installs]
                          ELSE IF u \in Readers /\ th[u].pc \notin {"idle", "done"}
                          THEN [th[u] EXCEPT !.linear = @ \cup {ReadResultIn(after, th[u].call)},
                                             !.overlaps = @ \cup {kind}]
                          ELSE th[u]]
    /\ UNCHANGED shared
    /\ UNCHANGED exceptConc

\* AddPhrase, lines 62-72, and RemovePhrase, lines 115-126: the keys of the
\* old Phrase are removed, one hunspell.Remove at a step.
Writer_Remove(t) ==
    /\ th[t].pc = "remove"
    /\ LET w == th[t]
           n == UpToNextCall(w.removes)
       IN /\ shared' = DoStmts(shared, SubSeq(w.removes, 1, n), <<>>)
          /\ th' = [th EXCEPT ![t] =
                      [w EXCEPT !.removes = SubSeq(@, n + 1, Len(@)),
                                !.pc = IF n < Len(w.removes) THEN "remove"
                                       ELSE IF w.installs # <<>> THEN "install"
                                       ELSE "Unlock"]]
    /\ UNCHANGED <<committed, rwm>>
    /\ UNCHANGED exceptConc

\* AddPhrase, lines 74-99: the keys of the new Phrase are put, one
\* hunspell.Add at a step.
Writer_Install(t) ==
    /\ th[t].pc = "install"
    /\ LET w == th[t]
           n == UpToNextCall(w.installs)
       IN /\ shared' = DoStmts(shared, SubSeq(w.installs, 1, n), Installed(w.call.p))
          /\ th' = [th EXCEPT ![t] =
                      [w EXCEPT !.installs = SubSeq(@, n + 1, Len(@)),
                                !.pc = IF n < Len(w.installs) THEN "install"
                                       ELSE "Unlock"]]
    /\ UNCHANGED <<committed, rwm>>
    /\ UNCHANGED exceptConc

\* s.m.Unlock(): the readers that blocked meanwhile are let in, and then
\* the writers that wait may go on.
Writer_Unlock(t) ==
    /\ th[t].pc = "Unlock"
    /\ rwm' = [rwm EXCEPT !.writer = {}, !.readers = rwm.blocked, !.blocked = {}]
    /\ committed' = [before |-> shared, after |-> shared, kind |-> "none"]
    /\ th' = [u \in DOMAIN th |->
                IF u = t THEN [th[u] EXCEPT !.pc = "done"]
                ELSE IF u \in rwm.blocked THEN [th[u] EXCEPT !.pc = "read"]
                ELSE th[u]]
    /\ UNCHANGED shared
    /\ UNCHANGED exceptConc

ConcNext ==
    \/ \E t \in Readers :
          \/ Reader_Call(t) \/ Reader_RLock(t) \/ Reader_Tries(t)
          \/ Reader_RUnlock(t) \/ Reader_Spell(t) \/ Reader_Suggest(t)
          \/ Reader_Return(t)
    \/ \E t \in Writers :
          \/ Writer_Call(t) \/ Writer_Lock(t) \/ Writer_Locked(t) \/ Writer_Remove(t)
          \/ Writer_Install(t) \/ Writer_Unlock(t)

----------------------------------------------------------------------------
(* The Spellcheck of one language as a state machine *)

State == [trie |-> trie, mistakeTrie |-> mistakeTrie, hunspell |-> hunspell]

\* NewSpellcheck: empty tries over a freshly created checker
SpellInit ==
    /\ trie = EmptyTrie
    /\ mistakeTrie = EmptyTrie
    /\ hunspell = BaseDictionary
    /\ added = EmptyTrie
    /\ runtimeWords = {}
    /\ nOps = 0
    /\ last = [op |-> "NewSpellcheck"]

Init == SpellInit /\ SyncInit /\ ExpandInit /\ IterInit /\ ReadInit /\ RunInit
        /\ ConcInit /\ HunInit /\ PoolInit /\ PreloadInit /\ LockInit

AddPhrase ==
    /\ nOps < MaxOps
    /\ \E p \in PhraseInputs :
         LET s2 == AddPhraseF(State, p) IN
         /\ trie' = s2.trie
         /\ mistakeTrie' = s2.mistakeTrie
         /\ hunspell' = s2.hunspell
         /\ added' = TriePut(added, p.Text, Installed(p))
         /\ runtimeWords' = AddPhraseF([State EXCEPT !.hunspell = runtimeWords], p).hunspell
         /\ last' = [op |-> "AddPhrase", given |-> p, p |-> Installed(p),
                     pre |-> State,
                     old |-> IF TrieHas(added, p.Text) THEN <<added[p.Text]>> ELSE <<>>]
    /\ nOps' = nOps + 1
    /\ UNCHANGED exceptSpell

RemovePhrase ==
    /\ nOps < MaxOps
    /\ \E text \in RemoveTexts :
         LET s2 == RemovePhraseF(State, text) IN
         /\ trie' = s2.trie
         /\ mistakeTrie' = s2.mistakeTrie
         /\ hunspell' = s2.hunspell
         /\ runtimeWords' = RemovePhraseF([State EXCEPT !.hunspell = runtimeWords], text).hunspell
         /\ last' = [op |-> "RemovePhrase", text |-> text, pre |-> State,
                     undoes |-> IF last.op = "AddPhrase" /\ last.p.Text = text
                                THEN <<[p |-> last.p, pre |-> last.pre]>> ELSE <<>>]
    /\ nOps' = nOps + 1
    /\ UNCHANGED added
    /\ UNCHANGED exceptSpell

DoCheck ==
    /\ \E text \in CheckTexts, withSuggestions \in BOOLEAN :
         last' = [op |-> "Check", text |-> text, withSuggestions |-> withSuggestions,
                  res |-> Check(State, text, withSuggestions)]
    /\ UNCHANGED <<trie, mistakeTrie, hunspell, added, runtimeWords, nOps>>
    /\ UNCHANGED exceptSpell

DoSuggestions ==
    /\ \E text \in SuggestionTexts :
         last' = [op |-> "Suggestions", text |-> text, res |-> Suggestions(State, text)]
    /\ UNCHANGED <<trie, mistakeTrie, hunspell, added, runtimeWords, nOps>>
    /\ UNCHANGED exceptSpell

Next == AddPhrase \/ RemovePhrase \/ DoCheck \/ DoSuggestions

Spec == Init /\ [][Next]_vars

\* The store and the tasks of one running instance
SyncSpec == Init /\ [][SyncNext]_vars

\* Calls of Expand over the templates
ExpandSpec == Init /\ [][ExpandNext]_vars

\* The tasks of Run; every step a task can take is taken in the end.
RunSpec ==
    /\ Init /\ [][RunNext]_vars
    /\ WF_vars(Listener_Start) /\ WF_vars(G1_Cancelled) /\ WF_vars(G1_Receive)
    /\ WF_vars(G1_Send_G2_Receive) /\ WF_vars(G2_Done) /\ WF_vars(G2_Send)
    /\ WF_vars(Listener_Return) /\ WF_vars(Updater_Preloaded)
    /\ WF_vars(Updater_Done) /\ WF_vars(Updater_Take) /\ WF_vars(Updater_Handled)
    /\ WF_vars(Updater_ChannelClosed)

\* The Check calls of one Spellcheck and its buffers; the base pass of a
\* call ends.
PoolSpec ==
    /\ Init
    /\ [][PoolNext]_vars
    /\ WF_vars(Check_Return)

\* The preload pass over a table that does not change while it runs
PreloadSpec == Init /\ [][PreloadNext]_vars

\* The locks of one Spellcheck; a goroutine that can go on does so.
LockSpec == Init /\ [][LockNext]_vars /\ WF_vars(LockStep)

\* One hunspell Checker and the goroutines calling it
HunSpec == Init /\ [][HunNext]_vars

\* One Spellcheck and the goroutines calling it
ConcSpec == Init /\ [][ConcNext]_vars

\* The read RPCs over a growing table
ReadSpec == Init /\ [][ReadNext]_vars

\* Range loops over one value of PhraseIterator; a loop that has started
\* goes on with its next round (the consumer need not start a loop).
IterSpec == Init /\ [][IterNext]_vars /\ WF_vars(Iter_End \/ Iter_Token)

----------------------------------------------------------------------------
(* Properties *)

PointedPhrases ==
    {trie[k] : k \in DOMAIN trie} \cup {mistakeTrie[k] : k \in DOMAIN mistakeTrie}

\* Every key AddPhrase derives from a Phrase
MistakeKeys(p) == Range(p.CommonMistakes) \cup FormKeys(p)
ValidKeys(p) == {p.Text} \cup FormValues(p)
DerivedKeys(p) == ValidKeys(p) \cup MistakeKeys(p)

\* C1: every Phrase that a key of either trie points to has all of its
\* derived keys present: its text and form values in the valid trie, its
\* expanded mistakes and form keys in the mistake trie.
C1_DerivedKeysPresent ==
    \A p \in PointedPhrases :
        /\ ValidKeys(p) \subseteq DOMAIN trie
        /\ MistakeKeys(p) \subseteq DOMAIN mistakeTrie

\* Check(m, true) has an overlay entry for m that comes from Phrase q.
ReportedFor(st, m, q) ==
    /\ TrieHas(st.mistakeTrie, m)
    /\ st.mistakeTrie[m] = q
    /\ m \in EntryTexts(CheckOverlay(st, m, TRUE).entries)

\* C2: after AddPhrase of a text that was added before, no mistake and no
\* form key that the earlier Phrase had and the new one lacks is still
\* reported by Check on behalf of the earlier Phrase.
C2_NoStaleOverlayEntries ==
    (last.op = "AddPhrase" /\ last.old # <<>>) =>
        LET old == last.old[1] IN
        \A m \in (Range(old.CommonMistakes) \ Range(last.p.CommonMistakes))
                 \cup (FormKeys(old) \ FormKeys(last.p)) :
            ~ReportedFor(State, m, old)

\* C3: AddPhrase(p) directly followed by RemovePhrase(p.Text) leaves Check
\* of every key derived from p as it was before the AddPhrase.
C3_AddRemoveRestores ==
    (last.op = "RemovePhrase" /\ last.undoes # <<>>) =>
        LET u == last.undoes[1] IN
        \A k \in DerivedKeys(u.p), ws \in BOOLEAN :
            Check(State, k, ws) = Check(u.pre, k, ws)

\* The entry Check(m, true) must hold for a key m of the Phrase p just added:
\* exactly one entry with text m, suggesting p.Text for a mistake and the
\* correct form for a form key.
ReportsMistake(st, p, m) ==
    LET res == Check(st, m, TRUE)
        at  == {i \in 1..Len(res) : res[i].Text = m}
    IN /\ Cardinality(at) = 1
       /\ \A i \in at :
            LET sugg == {res[i].Suggestions[j].Text : j \in 1..Len(res[i].Suggestions)} IN
            /\ m \in Range(p.CommonMistakes) => p.Text \in sugg
            /\ m \in FormKeys(p) => p.Forms[m] \in sugg

\* C4 as stated: right after AddPhrase(p) every expanded mistake and form
\* key of p, whatever its number of words, is reported by Check(m, true).
C4_EveryMistakeReported ==
    last.op = "AddPhrase" =>
        \A m \in MistakeKeys(last.p) : ReportsMistake(State, last.p, m)

\* A surface the iterator can yield: it begins and ends with a word and has
\* at most PhraseLength words inside the window.
Matchable(m) == SeqContains(PhraseIterator(m, PhraseLength), m)

\* C4 (amended): right after AddPhrase(p) every expanded mistake and form key
\* of p that begins and ends with a word and has one to three words is
\* reported by Check(m, true) in exactly one entry, which suggests p.Text
\* for a mistake and p.Forms[m] for a form key.
C4_MatchableMistakeReported ==
    last.op = "AddPhrase" =>
        \A m \in MistakeKeys(last.p) :
            Matchable(m) => ReportsMistake(State, last.p, m)

\* A phrase with a two-word mistake and one with a form key have been added.
C4_Witness ==
    /\ last.op = "AddPhrase"
    /\ \E m \in Range(last.p.CommonMistakes) : Matchable(m) /\ Len(Tokens(m)) > 1
    /\ \E q \in PointedPhrases : FormKeys(q) # {}


Yields(text) == Range(PhraseIterator(text, PhraseLength))

\* C5 as stated: a yielded phrase that is a key of the valid trie is
\* recorded as a replacement and Check emits no entry for it.
C5_ValidNeverReported ==
    last.op = "Check" =>
        \A ph \in Yields(last.text) :
            TrieHas(trie, ph) =>
                /\ SeqContains(CheckOverlay(State, last.text, last.withSuggestions).replacements, ph)
                /\ ph \notin EntryTexts(last.res)

\* C5 (amended): a yielded phrase that is a key of the valid trie is recorded
\* as a replacement, and Check emits an entry for it exactly when it is also
\* a key of the mistake trie; so Check(p.Text) has no entry for an installed
\* p.Text that is not a mistake key.
C5_ValidReportedOnlyAsMistake ==
    last.op = "Check" =>
        \A ph \in Yields(last.text) :
            TrieHas(trie, ph) =>
                /\ SeqContains(CheckOverlay(State, last.text, last.withSuggestions).replacements, ph)
                /\ ph \in EntryTexts(last.res) <=> TrieHas(mistakeTrie, ph)

\* A Check that met one valid key that is a mistake key and one that is not.
C5_Witness ==
    /\ last.op = "Check"
    /\ \E ph \in Yields(last.text) :
         TrieHas(trie, ph) /\ TrieHas(mistakeTrie, ph) /\ ph \in EntryTexts(last.res)
    /\ \E ph \in Yields(last.text) :
         TrieHas(trie, ph) /\ ~TrieHas(mistakeTrie, ph) /\ ph \notin EntryTexts(last.res)

LetterWords(text) ==
    {Tokens(text)[k].Text : k \in {i \in 1..Len(Tokens(text)) : Tokens(text)[i].Type = "Letter"}}

\* Phrases A (at a) and B (at b) are installed and each lists the other's
\* text as a common mistake.
MutualPair(a, b) ==
    /\ a # b
    /\ TrieHas(trie, a) /\ trie[a].Text = a
    /\ TrieHas(trie, b) /\ trie[b].Text = b
    /\ TrieHas(mistakeTrie, a) /\ mistakeTrie[a] = trie[b]
    /\ TrieHas(mistakeTrie, b) /\ mistakeTrie[b] = trie[a]
    /\ SeqContains(trie[b].CommonMistakes, a)
    /\ SeqContains(trie[a].CommonMistakes, b)

\* res has exactly one entry for surface a, with the level of Phrase q and
\* the suggestions sugg.
OneEntry(res, a, q, sugg) ==
    /\ Cardinality({i \in 1..Len(res) : res[i].Text = a}) = 1
    /\ \A i \in 1..Len(res) :
         res[i].Text = a =>
            /\ res[i].Level = entryLevelToRPC(q.Level)
            /\ res[i].Suggestions = sugg

\* C6 as stated: with A and B each other's mistake, Check with suggestions
\* of a text holding both has exactly one entry per text, whose single
\* suggestion is the other phrase's text.
C6_MutualMistakesSingleSuggestion ==
    (last.op = "Check" /\ last.withSuggestions) =>
        \A a \in LetterWords(last.text), b \in LetterWords(last.text) :
            MutualPair(a, b) =>
                OneEntry(last.res, a, trie[b],
                         <<[Text |-> b, Description |-> trie[b].Description]>>)

\* C6 (amended): the entry for A.text suggests B.text and, when A.text is
\* also a form key of B, B.forms[A.text] after it; nothing else.
C6_MutualMistakes ==
    (last.op = "Check" /\ last.withSuggestions) =>
        \A a \in LetterWords(last.text), b \in LetterWords(last.text) :
            MutualPair(a, b) =>
                OneEntry(last.res, a, trie[b],
                         <<[Text |-> b, Description |-> trie[b].Description]>>
                         \o (IF a \in FormKeys(trie[b])
                             THEN <<[Text |-> trie[b].Forms[a],
                                     Description |-> trie[b].Description]>>
                             ELSE <<>>))

\* The scenario of TestSpellcheck: both phrases without forms, both words in
\* the text, two entries returned.
C6_Witness ==
    /\ last.op = "Check" /\ last.withSuggestions
    /\ MutualPair(A, B)
    /\ FormKeys(trie[A]) = {} /\ FormKeys(trie[B]) = {}
    /\ {A, B} \subseteq LetterWords(last.text)
    /\ Len(last.res) = 2

\* Phrases of the text that the overlay pass matched.
MatchedPhrases(st, text) ==
    {ph \in Yields(text) : TrieHas(st.trie, ph) \/ TrieHas(st.mistakeTrie, ph)}

OccursAt(toks, ptoks, j) ==
    /\ j + Len(ptoks) - 1 <= Len(toks)
    /\ \A x \in 1..Len(ptoks) : toks[j + x - 1] = ptoks[x]

\* Positions of the tokens of the text that lie inside a matched phrase.
Covered(st, text) ==
    LET toks == Tokens(text) IN
    {k \in 1..Len(toks) :
        \E ph \in MatchedPhrases(st, text), j \in 1..Len(toks) :
            /\ OccursAt(toks, Tokens(ph), j)
            /\ j <= k /\ k < j + Len(Tokens(ph))}

\* The positions of s that strings.Replacer copies to its output.
RECURSIVE KeptFrom(_, _, _)
KeptFrom(olds, s, i) ==
    IF i > Len(s) THEN {}
    ELSE LET m == {j \in 1..Len(olds) : Len(olds[j]) > 0 /\ HasPrefixAt(s, i, olds[j])} IN
         IF m = {} THEN {i} \cup KeptFrom(olds, s, i + 1)
         ELSE KeptFrom(olds, s, i + Len(olds[Min(m)]))

\* The positions of the text that reach the segmenter of the second pass.
KeptPositions(st, text) ==
    LET r == CheckOverlay(st, text, FALSE).replacements IN
    IF Len(r) > 0 THEN KeptFrom(r, text, 1) ELSE 1..Len(text)

\* Position in the text of the first character of token k.
RECURSIVE TokenStart(_, _)
TokenStart(toks, k) ==
    IF k = 1 THEN 1 ELSE TokenStart(toks, k - 1) + Len(toks[k - 1].Text)

TokenPositions(toks, k) ==
    TokenStart(toks, k) .. (TokenStart(toks, k) + Len(toks[k].Text) - 1)

\* C7: every Letter token of the input that lies inside a phrase matched by
\* the overlay pass is cut out of the residue, so that none of it reaches the
\* base checker, whatever the order of the recorded replacements.
C7_MatchedTokensCutFromResidue ==
    last.op = "Check" =>
        LET toks == Tokens(last.text) IN
        \A k \in Covered(State, last.text) :
            toks[k].Type = "Letter" =>
                TokenPositions(toks, k) \cap KeptPositions(State, last.text) = {}

\* C8: Check returns no two entries with the same text.
C8_NoDuplicateEntryTexts ==
    last.op = "Check" =>
        \A i \in 1..Len(last.res), j \in 1..Len(last.res) :
            i # j => last.res[i].Text # last.res[j].Text

\* C9: Check without suggestions returns the texts and levels of Check with
\* suggestions, every entry with no suggestions; Check("") returns nothing.
C9_WithoutSuggestions ==
    last.op = "Check" =>
        LET r0 == Check(State, last.text, FALSE)
            r1 == Check(State, last.text, TRUE)
        IN /\ Len(r0) = Len(r1)
           /\ \A i \in 1..Len(r0) :
                /\ r0[i].Text = r1[i].Text
                /\ r0[i].Level = r1[i].Level
                /\ r0[i].Suggestions = <<>>
           /\ last.res = (IF last.withSuggestions THEN r1 ELSE r0)
           /\ last.text = <<>> => last.res = <<>>

\* A Check without suggestions that returned an overlay entry and a
\* base-checker entry for which suggestions exist.
C9_Witness ==
    /\ last.op = "Check" /\ ~last.withSuggestions
    /\ Len(last.res) >= 2
    /\ \E i \in 1..Len(last.res) :
         TrieHas(mistakeTrie, last.res[i].Text)
         /\ Check(State, last.text, TRUE)[i].Suggestions # <<>>
    /\ \E i \in 1..Len(last.res) :
         ~TrieHas(mistakeTrie, last.res[i].Text)
         /\ Check(State, last.text, TRUE)[i].Suggestions # <<>>

\* C10: Suggestions returns p.Text when the text is a common mistake of the
\* Phrase the mistake trie has for it, then the correct form when it is a
\* form key, both with p.Description; then the base checker's suggestions,
\* in its order, exactly when the text has no space and is misspelled.
C10_SuggestionsOrder ==
    last.op = "Suggestions" =>
        LET t   == last.text
            res == last.res
            cm  == TrieHas(mistakeTrie, t) /\ t \in Range(mistakeTrie[t].CommonMistakes)
            fm  == TrieHas(mistakeTrie, t) /\ t \in FormKeys(mistakeTrie[t])
            n   == (IF cm THEN 1 ELSE 0) + (IF fm THEN 1 ELSE 0)
            toBase == ~ContainsChar(t, " ") /\ ~HunspellSpell(hunspell, t)
            hs  == HunspellSuggest(hunspell, t)
        IN /\ Len(res) = n + (IF toBase THEN Len(hs) ELSE 0)
           /\ cm => res[1] = [Text |-> mistakeTrie[t].Text,
                              Description |-> mistakeTrie[t].Description]
           /\ fm => res[n] = [Text |-> mistakeTrie[t].Forms[t],
                              Description |-> mistakeTrie[t].Description]
           /\ toBase => \A i \in 1..Len(hs) :
                           res[n + i] = [Text |-> hs[i], Description |-> ""]

\* Suggestions for a misspelled single word that is both a common mistake
\* and a form key: two overlay suggestions, then those of the base checker.
C10_Witness ==
    /\ last.op = "Suggestions"
    /\ TrieHas(mistakeTrie, last.text)
    /\ last.text \in Range(mistakeTrie[last.text].CommonMistakes)
    /\ last.text \in FormKeys(mistakeTrie[last.text])
    /\ ~HunspellSpell(hunspell, last.text)
    /\ Len(last.res) > 2

----------------------------------------------------------------------------
(* Properties of the store and the tasks *)

\* No call is open, no notification is on its way and the updater runs.
Settled ==
    /\ txs = <<>>
    /\ connQueue = <<>>
    /\ received = <<>>
    /\ sending = <<>>
    /\ entryUpdates = <<>>
    /\ handling = <<>>
    /\ updater = "running"

\* The texts for which some key of the trie holds a phrase.
InstalledTexts(t) == {t[k].Text : k \in DOMAIN t}

\* res has an entry for surface m that suggests text.
Suggests(res, m, text) ==
    \E i \in 1..Len(res) :
        /\ res[i].Text = m
        /\ \E j \in 1..Len(res[i].Suggestions) : res[i].Suggestions[j].Text = text

\* The phrase installed for every text is the projection of its row.
TextsInSync(language) ==
    LET t == phrases[language] IN
    /\ \A k \in DOMAIN rows :
          k[1] = language =>
             /\ TrieHas(t, k[2])
             /\ t[k[2]] = [Text |-> k[2], Description |-> rows[k].Description]
    /\ \A text \in InstalledTexts(t) : Key(language, text) \in DOMAIN rows

\* The overlay of a language is the projection of the committed rows.
InSync(language) ==
    /\ TextsInSync(language)
    /\ \A k \in DOMAIN rows :
          k[1] = language =>
             \A m \in Range(ExpandMistakes(rows[k].CommonMistakes)) :
                 Matchable(m) => Suggests(spellcheck(AppState, m, language), m, k[2])

\* C11: whatever the interleaving of the calls with the preload, the listen
\* task and the updater, once no call is open and every notification has
\* been delivered and applied, the overlay of every supported language is
\* the projection of the committed rows, and the check of every expanded
\* common mistake of a row suggests the row's text.
C11_ConvergesToRows ==
    (Settled /\ listener = "listening") =>
        \A language \in SupportedLanguages : InSync(language)

\* The trie holds the phrase of this text under the text itself.
InstalledFor(t, text) == TrieHas(t, text) /\ t[text].Text = text

Pos(seq, x) == CHOOSE i \in 1..Len(seq) : seq[i] = x

SameKey(i, j) ==
    calls[i].Language = calls[j].Language /\ calls[i].Text = calls[j].Text

\* C12: the notifications of two committed writes to one key are applied
\* in the order in which their row changes became visible; and once every
\* row change of a key has been applied, the phrase of the key is installed
\* exactly when its row exists (for a text that no committed row lists as a
\* common mistake: text and mistakes share the keys of one trie).
C12_AppliedInCommitOrder ==
    /\ \A i \in Range(applied), j \in Range(applied) :
          (/\ i \in Range(rowLog) /\ j \in Range(rowLog)
           /\ SameKey(i, j)
           /\ Pos(rowLog, i) < Pos(rowLog, j)) => Pos(applied, i) < Pos(applied, j)
    /\ \A i \in Range(applied) :
          (/\ txs = <<>>
           /\ calls[i].Language \in SupportedLanguages
           /\ \A k \in DOMAIN rows : calls[i].Text \notin Range(rows[k].CommonMistakes)
           /\ \A j \in Range(rowLog) :
                 (j \in DOMAIN calls /\ SameKey(i, j)) => j \in Range(applied))
          => (InstalledFor(phrases[calls[i].Language], calls[i].Text)
                <=> Key(calls[i].Language, calls[i].Text) \in DOMAIN rows)

\* C13: a call that failed changed no committed row and published no
\* notification; a call that succeeded committed its row change and
\* published its notification.
C13_RowChangeAndNotificationAtomic ==
    \A id \in DOMAIN calls :
        /\ calls[id].ok => (calls[id].rowCommitted /\ calls[id].notified)
        /\ ~calls[id].ok => (~calls[id].changedRows /\ ~calls[id].notified)

\* The entries Application.spellcheck takes from the phrases trie.
AppOverlayEntries(text, language) ==
    AppOverlayFrom(phrases[language], PhraseIterator(text, PhraseLength),
                   1, <<>>, text).entries

\* C14: when the notification applied last is that of a committed
\* DeleteEntry and the row is gone, the check of the text has no overlay
\* entry for it and no key of the trie resolves to a phrase of that text.
C14_DeletedEntryLeavesNoKeys ==
    (applied # <<>>) =>
        LET c == calls[applied[Len(applied)]] IN
        (/\ c.kind = "DeleteEntry"
         /\ c.Language \in SupportedLanguages
         /\ Key(c.Language, c.Text) \notin DOMAIN rows)
        => /\ c.Text \notin EntryTexts(AppOverlayEntries(c.Text, c.Language))
           /\ c.Text \notin InstalledTexts(phrases[c.Language])

\* The listen task and the updater have no step left to take.
TasksIdle ==
    /\ txs = <<>>
    /\ ~ENABLED (Listener_Listen \/ Listener_Wait \/ Listener_Dispatch
                 \/ Listener_Send)
    /\ ~ENABLED (Updater_Preload \/ Updater_Receive \/ Updater_Handle
                 \/ Updater_Closed)

\* C15: once the listening connection has returned an error and the tasks
\* have come to rest, the subscription is established again and the
\* installed texts are those of the committed rows.
C15_ReconnectsAndReloads ==
    (listener = "broken" /\ updater = "running" /\ TasksIdle) =>
        /\ listener = "listening"
        /\ \A language \in SupportedLanguages : TextsInSync(language)

----------------------------------------------------------------------------
(* Properties of Expand *)

RECURSIVE SortedSeq(_)
SortedSeq(S) == IF S = {} THEN <<>> ELSE <<Min(S)>> \o SortedSeq(S \ {Min(S)})

\* The positions of character c in s, ascending.
PositionsOf(s, c) == SortedSeq({i \in 1..Len(s) : s[i] = c})

\* The positions of the braces of a template, ascending.
BracePositions(t) == SortedSeq({i \in 1..Len(t) : t[i] \in {"{", "}"}})

\* Position i lies inside an open group: the nearest brace before it opens.
InOpenGroup(t, i) ==
    LET before == {j \in 1..(i - 1) : t[j] \in {"{", "}"}} IN
    before # {} /\ t[CHOOSE j \in before : \A x \in before : x <= j] = "{"

Nested(t) == \E i \in 1..Len(t) : t[i] = "{" /\ InOpenGroup(t, i)

StrayClose(t) == \E i \in 1..Len(t) : t[i] = "}" /\ ~InOpenGroup(t, i)

Unclosed(t) == InOpenGroup(t, Len(t) + 1)

Malformed(t) == Nested(t) \/ StrayClose(t) \/ Unclosed(t)

\* The options of a group: the pieces of its content between the bars.
OptionsOf(content) ==
    LET bars == PositionsOf(content, "|")
        from(j) == IF j = 1 THEN 1 ELSE bars[j - 1] + 1
        to(j)   == IF j = Len(bars) + 1 THEN Len(content) ELSE bars[j] - 1
    IN [j \in 1..(Len(bars) + 1) |-> SubSeq(content, from(j), to(j))]

\* The parts of a well formed template, left to right: each stretch of
\* static text that is not empty (one option) and each group.
PartsOf(t) ==
    LET b == BracePositions(t)
        n == Len(b) \div 2
        static(g) == SubSeq(t, IF g = 0 THEN 1 ELSE b[2 * g] + 1,
                               IF g = n THEN Len(t) ELSE b[2 * g + 1] - 1)
        group(g)  == SubSeq(t, b[2 * g - 1] + 1, b[2 * g] - 1)
        piece(x)  == IF x % 2 = 1
                     THEN (IF static((x - 1) \div 2) = <<>> THEN <<>>
                           ELSE << <<static((x - 1) \div 2)>> >>)
                     ELSE << OptionsOf(group(x \div 2)) >>
    IN Flatten([x \in 1..(2 * n + 1) |-> piece(x)])

RECURSIVE ProductOfCounts(_, _)
ProductOfCounts(parts, j) ==
    IF j > Len(parts) THEN 1 ELSE Len(parts[j]) * ProductOfCounts(parts, j + 1)

\* The k-th literal (from 0) of the cross product in row-major order: the
\* option of part j is the j-th digit of k, the leftmost part varying slowest.
RowMajorLiteral(parts, k) ==
    Flatten([j \in 1..Len(parts) |->
                parts[j][((k \div ProductOfCounts(parts, j + 1)) % Len(parts[j])) + 1]])

CrossProduct(parts) ==
    [k \in 1..ProductOfCounts(parts, 1) |-> RowMajorLiteral(parts, k - 1)]

\* C16: for a template with balanced braces that do not nest, Expand returns
\* the cross product of its parts in row-major order, as many literals as
\* the product of the option counts; a template without braces gives the
\* list of the input alone, the empty template the list of the empty string.
C16_ExpandCrossProduct ==
    (expanded # <<>> /\ ~Malformed(template)) =>
        /\ ~expanded[1].err
        /\ expanded[1].lits = CrossProduct(PartsOf(template))
        /\ Len(expanded[1].lits) = ProductOfCounts(PartsOf(template), 1)
        /\ BracePositions(template) = <<>> => expanded[1].lits = <<template>>

\* Expand of "{a|b} {a|b}" has returned "a a", "a b", "b a", "b b".
C16_Witness ==
    /\ expanded # <<>>
    /\ template = <<"{", "a", "|", "b", "}", " ", "{", "a", "|", "b", "}">>
    /\ expanded[1].lits = << <<"a", " ", "a">>, <<"a", " ", "b">>,
                             <<"b", " ", "a">>, <<"b", " ", "b">> >>

\* C17: Expand fails, without literals, exactly for the templates that have
\* an opening brace inside an open group, an opening brace never closed or
\* a closing brace outside a group.
C17_ExpandRejectsMalformed ==
    expanded # <<>> =>
        /\ expanded[1].err <=> Malformed(template)
        /\ expanded[1].err => expanded[1].lits = <<>>

\* Expand of a template with a nested brace has failed.
C17_Witness ==
    /\ expanded # <<>>
    /\ Nested(template) /\ ~StrayClose(template)
    /\ expanded[1].err

----------------------------------------------------------------------------
(* Properties of the phrase iterator as a range loop *)

\* Tokens s..e of the text, written one after the other.
Piece(s, e) == Flatten([j \in 1..(e - s + 1) |-> itText[s + j - 1].Text])

\* Positions of the Letter tokens of the text up to token e.
LettersUpTo(e) == {i \in 1..e : itText[i].Type = "Letter"}

\* Position of the j-th Letter token counted leftward from token e.
LetterBack(e, j) ==
    CHOOSE i \in LettersUpTo(e) : Cardinality({k \in LettersUpTo(e) : k >= i}) = j

\* The calls of yield made while token e was the newest token.
CallsFor(e) == SelectSeq(itYielded, LAMBDA y : y.end = e)

\* C18: PhraseIterator(text, 3) never yields a phrase of more than 3 Letter
\* tokens; for every Letter token it yields the token alone first and then
\* phrases that reach one Letter token further to the left each; every
\* phrase is the piece of the text from a Letter token to the newest Letter
\* token with the separators between them, also when the window of 12
\* tokens has wrapped.
C18_PhrasesOfEachWord ==
    \A e \in 1..Len(itText) :
        LET ys == CallsFor(e) IN
        /\ Len(ys) <= PhraseLength
        /\ (itText[e].Type = "Letter") = (ys # <<>>)
        /\ \A j \in 1..Len(ys) :
              /\ CountType(Tokens(ys[j].phrase), "Letter") = j
              /\ Cardinality(LettersUpTo(e)) >= j
              /\ ys[j].phrase = Piece(LetterBack(e, j), e)

\* More tokens have been read than the window holds, and the newest token
\* is a word whose longest phrase of three words lies across the end of the
\* buffer.
C18_Witness ==
    /\ itPos > PhraseLength * WindowFactor
    /\ itRing.start > 0
    /\ itText[itPos].Type = "Letter"
    /\ Len(CallsFor(itPos)) = PhraseLength
    /\ LET words == FillWords(itRing, Len(itRing.window) - 1, <<>>, PhraseLength)
       IN words[PhraseLength] > words[1]

\* No call of yield follows, in the same loop, a call that returned false.
StopsAtFalse ==
    \A i, j \in DOMAIN itYielded :
        (i < j /\ ~itYielded[i].ret) => itYielded[j].run > itYielded[i].run

\* A later loop yields only phrases that end on tokens further on in the
\* text than every phrase of the loops before it.
NoReplay ==
    \A i, j \in DOMAIN itYielded :
        (itYielded[i].run < itYielded[j].run) => itYielded[i].end < itYielded[j].end

\* C19: a range loop over PhraseIterator of a finite text ends; after the
\* consumer has returned false no phrase is yielded in that loop; a second
\* loop over the same value does not yield the phrases from the start of
\* the text again.
C19_FiniteCancellableNotRestartable ==
    /\ (itPc = "running") ~> (itPc = "idle")
    /\ [](StopsAtFalse /\ NoReplay)

\* The first loop was stopped by the consumer before the last phrase of a
\* word, the second loop yielded phrases and ran to the end of the text.
C19_Witness ==
    /\ itRuns = 2
    /\ itPc = "idle"
    /\ itEOF
    /\ \E i, j \in DOMAIN itYielded :
         /\ itYielded[i].run = 1
         /\ ~itYielded[i].ret
         /\ Len(CallsFor(itYielded[i].end)) < PhraseLength
         /\ Cardinality(LettersUpTo(itYielded[i].end)) >= PhraseLength
         /\ itYielded[j].run = 2
----------------------------------------------------------------------------
(* The valid trie and the base checker *)

\* C20: after any AddPhrase and RemovePhrase calls every key of the valid
\* trie has been added to the base checker and not removed from it since.
C20_ValidKeysKnownToChecker == DOMAIN trie \subseteq runtimeWords

\* A RemovePhrase has taken a phrase out while another phrase stays, one
\* of whose keys is a correct form that is not its text.
C20_Witness ==
    /\ last.op = "RemovePhrase"
    /\ TrieHas(last.pre.trie, last.text)
    /\ \E key \in DOMAIN trie : trie[key].Text # key
    /\ runtimeWords # {}
----------------------------------------------------------------------------
(* AddPhrase and templates that do not expand *)

\* The literals of the well formed templates, in the order of the templates.
WellFormedLiterals(templates) ==
    Flatten([i \in 1..Len(templates) |->
                IF Malformed(templates[i]) THEN <<>>
                ELSE CrossProduct(PartsOf(templates[i]))])

\* C21: AddPhrase never fails.  A malformed template of p.CommonMistakes
\* gives no key to the mistake trie; p.Text and the correct forms are in
\* the valid trie, the form keys and the literals of every well formed
\* template are in the mistake trie, all pointing to p, and
\* p.CommonMistakes is the flattened list of those literals.
C21_MalformedTemplatesSkipped ==
    last.op = "AddPhrase" =>
        LET given == last.given
            lits  == WellFormedLiterals(given.CommonMistakes)
        IN
        /\ TrieHas(trie, given.Text)
        /\ trie[given.Text].Text = given.Text
        /\ trie[given.Text].CommonMistakes = lits
        /\ \A c \in FormValues(given) :
              TrieHas(trie, c) /\ trie[c] = trie[given.Text]
        /\ \A m \in Range(lits) \cup FormKeys(given) :
              TrieHas(mistakeTrie, m) /\ mistakeTrie[m] = trie[given.Text]
        /\ (DOMAIN mistakeTrie) \ (DOMAIN last.pre.mistakeTrie)
              \subseteq Range(lits) \cup FormKeys(given)

\* AddPhrase was given a malformed template followed by a well formed one
\* with a group, and a form.
C21_Witness ==
    /\ last.op = "AddPhrase"
    /\ FormKeys(last.given) # {}
    /\ \E i, j \in 1..Len(last.given.CommonMistakes) :
         /\ i < j
         /\ Malformed(last.given.CommonMistakes[i])
         /\ ~Malformed(last.given.CommonMistakes[j])
         /\ Len(CrossProduct(PartsOf(last.given.CommonMistakes[j]))) > 1
    /\ Len(trie[last.given.Text].CommonMistakes) > 1
----------------------------------------------------------------------------
(* The RPCs of the dictionary service and their errors *)

\* A write request with an unknown language or without a required field.
InvalidWrite(c) ==
    \/ c.req.Language \notin SupportedLanguages
    \/ c.req.Text = <<>>
    \/ c.kind = "SetEntry" /\ ("Nil" \in DOMAIN c.req \/ c.req.Status = "")

\* C22: a SetEntry or DeleteEntry with an unknown language or an empty
\* required field returns InvalidArgument and has not touched the store:
\* no row written or deleted, no notification sent.
C22_InvalidWritesRejected ==
    \A id \in DOMAIN calls :
        InvalidWrite(calls[id]) =>
            /\ calls[id].code = "invalid_argument"
            /\ ~calls[id].rowCommitted
            /\ ~calls[id].notified
            /\ id \notin Range(rowLog)
            /\ \A i \in DOMAIN connQueue : connQueue[i].id # id

\* The rows a ListEntries request asks for, before paging: those of its
\* language and status, when given, whose text matches prefix% when the
\* prefix is not empty.
Asked(req) ==
    SelectSeq(stored,
              LAMBDA row :
                  /\ req.Language = "" \/ row.Language = req.Language
                  /\ req.Status = "" \/ row.Status = req.Status
                  /\ req.Prefix = <<>> \/ SqlLike(row.Entry, Append(req.Prefix, "%")))

\* C23: ListEntries with a % in the prefix returns InvalidArgument without
\* a query; else, when the store answers, page n holds what is left of the
\* rows asked for after 100*n of them, at most 100, each once: a prefix that
\* is not empty is matched as the pattern prefix%, an empty prefix is no
\* filter.  (Which of the rows asked for come first is up to the store.)
C23_ListEntriesPrefixAndPaging ==
    readRes.op = "ListEntries" =>
        LET req == readRes.req
            res == readRes.res
            n   == req.Page
            asked == Asked(req)
        IN
        IF \E i \in 1..Len(req.Prefix) : req.Prefix[i] = "%"
        THEN res.code = "invalid_argument" /\ ~res.queried
        ELSE (readRes.dbOk /\ n >= 0) =>
                /\ res.code = "ok"
                /\ Len(res.entries) <= 100
                /\ Len(res.entries) =
                      IF Len(asked) >= 100 * (n + 1) THEN 100
                      ELSE IF Len(asked) > 100 * n THEN Len(asked) - 100 * n ELSE 0
                /\ \A i \in 1..Len(res.entries) :
                      /\ \E k \in 1..Len(asked) : res.entries[i] = CustomEntry(asked[k])
                      /\ \A j \in 1..(i - 1) : res.entries[j] # res.entries[i]

\* The second page of the rows with prefix "a" was returned, after a full
\* first page, and is itself not full; its rows are not those a scan in the
\* order of storage comes to after the first 100.
C23_Witness ==
    /\ readRes.op = "ListEntries"
    /\ readRes.req.Prefix = A
    /\ readRes.req.Page = 1
    /\ readRes.res.code = "ok"
    /\ Len(readRes.res.entries) \in 1..99
    /\ Len(stored) > 200
    /\ readRes.res.entries[1] # CustomEntry(Asked(readRes.req)[101])

\* C24: GetEntry of a language and text without a row returns NotFound,
\* not Internal; for a row that exists it returns the fields of the row.
C24_GetEntryNotFound ==
    (readRes.op = "GetEntry" /\ readRes.dbOk
       /\ readRes.req.Language # "" /\ readRes.req.Text # <<>>) =>
        LET req == readRes.req
            res == readRes.res
            at  == {k \in 1..Len(stored) :
                      stored[k].Language = req.Language /\ stored[k].Entry = req.Text}
        IN
        IF at = {} THEN res.code = "not_found"
        ELSE /\ res.code = "ok"
             /\ \E k \in at : res.entries = <<CustomEntry(stored[k])>>
----------------------------------------------------------------------------
(* Updates of different entries *)

\* The update of one entry, as the service applies it to a Spellcheck:
\* AddPhrase of its row, or RemovePhrase of its text when the row is gone.
EntryUpdates ==
    {[op |-> "AddPhrase", Text |-> p.Text, p |-> p] : p \in PhraseInputs}
    \cup {[op |-> "RemovePhrase", Text |-> text] : text \in RemoveTexts}

ApplyUpdate(st, u) ==
    IF u.op = "AddPhrase" THEN AddPhraseF(st, u.p) ELSE RemovePhraseF(st, u.Text)

\* C25: the updates of two entries with different texts give the same
\* tries and the same words of the base checker in either order, whatever
\* mistakes, form keys and form values the entries share.
C25_UpdatesOfDistinctTextsCommute ==
    \A u, v \in EntryUpdates :
        u.Text # v.Text =>
            ApplyUpdate(ApplyUpdate(State, u), v) = ApplyUpdate(ApplyUpdate(State, v), u)
----------------------------------------------------------------------------
(* Shutdown *)

\* Both goroutines of the listener, the listener and the updater have
\* returned: grp.Wait() of Run returns.
RunReturns ==
    /\ lst = "returned"
    /\ g1 = "done"
    /\ g2 = "done"
    /\ upd = "done"

\* C26: once the context of Run is cancelled, the goroutines of the
\* listener, the listener and the updater all return, whatever state they
\* were in: a.entryUpdates full, a notification received from the
\* connection and not yet handed over, the updater stopped by an error.
C26_CancelStopsAllTasks == rootDone ~> RunReturns

----------------------------------------------------------------------------
(* One Spellcheck under concurrent calls *)

\* The goroutines that are reading the tries, and those changing them
ReadingTries == {t \in Readers : th[t].pc \in {"read", "RUnlock"}}

Mutating == {t \in Writers : th[t].pc \in {"remove", "install", "Unlock"}}

\* C27: no read of the tries by Check or Suggestions overlaps a mutation by
\* AddPhrase or RemovePhrase, and at most one AddPhrase or RemovePhrase
\* mutates at a time; several readers may read at the same time.
C27_ReadersExcludeWriters ==
    /\ ReadingTries = {} \/ Mutating = {}
    /\ Cardinality(Mutating) <= 1

\* Two Check calls read the tries at the same time, let in by the Unlock of
\* a writer, while the other writer waits for them to leave.
C27_Witness ==
    /\ \A t \in Readers : th[t].pc = "read" /\ th[t].call.op = "Check"
    /\ rwm.readers = Readers
    /\ \E w \in Writers : th[w].pc = "LockWait" /\ rwm.pending = {w}
    /\ \E w \in Writers : th[w].pc = "done"

\* C28: a Check or Suggestions call that runs while a phrase is replaced by
\* a second AddPhrase returns what it would return in the state before the
\* update or in the state after it, the acceptance of words by the checker
\* included.
C28_ReplacementIsAtomic ==
    \A t \in Readers :
        th[t].pc = "done" /\ th[t].overlaps = {"replace"}
            => th[t].res \in th[t].linear

----------------------------------------------------------------------------
(* One hunspell Checker under concurrent calls *)

\* C29: at most one goroutine at a time is inside a function of the library
\* that takes the handle, the release of the result list of Suggest and Stem
\* included.
C29_OneNativeCallAtATime == Cardinality(InNative) <= 1

----------------------------------------------------------------------------
(* The residue buffers of one Spellcheck *)

\* The Check calls waiting for a buffer
WaitingForBuffer == DOMAIN chk

\* No phrase of the text is a key of the trie or of the mistake trie.
NoOverlayMatch(text) ==
    \A ph \in Range(PhraseIterator(text, PhraseLength)) :
        ~TrieHas(PoolSpellcheck.trie, ph) /\ ~TrieHas(PoolSpellcheck.mistakeTrie, ph)

\* At most ten buffers are out, and each is held by a Check that has not
\* returned.
BuffersHeldByRunningChecks ==
    /\ BagCardinality(holding) <= PoolMaxSize
    /\ bufs.acquired = BagCardinality(holding)
    /\ bufs.acquired + bufs.idle <= PoolMaxSize

\* A Check that returned without an overlay match had acquired no buffer.
NoMatchNoBuffer ==
    lastCheck.op = "Check" /\ NoOverlayMatch(lastCheck.text)
        => ~lastCheck.acquired /\ lastCheck.err = ""

\* A Check that leaves the queue of Acquire gets the buffer another Check
\* gave back, or returns an error and no result; a Check without overlay
\* match leaves the pool as it is.
CancelledWaitFails ==
    /\ \A c \in WaitingForBuffer :
          c \notin DOMAIN chk'
              => \/ /\ lastCheck'.err # "" /\ lastCheck'.res = <<"nil">>
                    /\ bufs' = bufs /\ holding' = holding
                 \/ /\ lastCheck'.acquired
                    /\ BagCardinality(holding') = PoolMaxSize
                    /\ BagIn(chk[c], holding')
    /\ nChecks' # nChecks /\ lastCheck' # lastCheck /\ NoOverlayMatch(lastCheck'.text)
          => bufs' = bufs /\ holding' = holding /\ chk' = chk

\* C30: at most 10 Check calls hold a residue buffer; a buffer acquired by
\* a Check is released when the Check returns, with a result or with an
\* error, so no Check waits for ever; a Check whose context ends
\* while it waits returns an error and no result; a Check without overlay
\* match acquires no buffer.
C30_BufferPool ==
    /\ [](BuffersHeldByRunningChecks /\ NoMatchNoBuffer)
    /\ [][CancelledWaitFails]_vars
    /\ \A c \in 1..MaxChecks : []<>(c \notin WaitingForBuffer)

\* Ten Check calls hold a buffer and one more waits, after a Check failed
\* in its base pass and gave its buffer back.
C30_Witness ==
    /\ BagCardinality(holding) = PoolMaxSize
    /\ WaitingForBuffer # {}
    /\ lastCheck.op = "Check" /\ lastCheck.acquired /\ lastCheck.err # ""

----------------------------------------------------------------------------
(* The update-applier, notification by notification *)

\* No key of the trie resolves to a phrase for the text.
NoPhraseFor(t, text) == \A k \in DOMAIN t : t[k].Text # text

\* The trie has the phrase for the text, and every key that resolves to a
\* phrase for the text resolves to the one built from the row.
PhraseFromRow(t, text, row) ==
    /\ TrieHas(t, text)
    /\ \A k \in DOMAIN t :
          t[k].Text = text => t[k] = [Text |-> text, Description |-> row.Description]

\* C31: a notification for a language that has a state removes the phrase
\* for its text when deleted is set or GetEntry finds no row, and installs
\* the Phrase built from the row otherwise; when GetEntry fails otherwise
\* the state in memory is left as it is and the task ends with the error.
C31_NotificationApplied ==
    [][ (handling # <<>> /\ handling' = <<>>
         /\ handling[1].Language \in SupportedLanguages)
        => LET n   == handling[1]
               key == Key(n.Language, n.Text)
           IN IF updater' = "stopped"
              THEN ~n.Deleted /\ phrases' = phrases /\ checkers' = checkers
              ELSE IF n.Deleted \/ key \notin DOMAIN rows
              THEN NoPhraseFor(phrases'[n.Language], n.Text)
              ELSE PhraseFromRow(phrases'[n.Language], n.Text, rows[key])
      ]_vars

\* The notification the updater is handling is for a language without
\* state.
HandlesUnknownLanguage ==
    /\ handling # <<>> /\ handling' = <<>>
    /\ handling[1].Language \notin SupportedLanguages

\* The listener is dropping a payload that does not parse.
DropsUnparsable ==
    /\ received # <<>> /\ received' = <<>>
    /\ Unparsable(received[1])

\* C32: a notification for a language without state, and a payload that
\* does not parse, change nothing in memory and leave the listener and the
\* updater where they are, ready for the next notification.
C32_BadNotificationsDropped ==
    [][ /\ HandlesUnknownLanguage =>
            /\ phrases' = phrases /\ checkers' = checkers
            /\ updater' = "running" /\ listener' = listener
            /\ applied' = Append(applied, handling[1].id)
        /\ DropsUnparsable =>
            /\ phrases' = phrases /\ checkers' = checkers
            /\ entryUpdates' = entryUpdates /\ sending' = sending
            /\ updater' = updater /\ listener' = listener
      ]_vars

\* A payload that did not parse was dropped, a notification for a language
\* without state was handled, and the notification of a later write to a
\* known language has been applied and its phrase installed.
C32_Witness ==
    /\ listener = "listening"
    /\ connQueue = <<>> /\ received = <<BadPayload>> /\ entryUpdates = <<>>
    /\ handling = <<>>
    /\ Len(applied) = 2
    /\ calls[applied[1]].Language \notin SupportedLanguages
    /\ calls[applied[2]].Language \in SupportedLanguages
    /\ calls[applied[2]].kind = "SetEntry"
    /\ InstalledFor(phrases[calls[applied[2]].Language], calls[applied[2]].Text)

----------------------------------------------------------------------------
(* The preload pass *)

\* How often the pages returned the row of the text.
TimesReturned(text) == Cardinality({i \in 1..Len(plReturned) : plReturned[i] = text})

\* C33: when the preload pass ends without error, and no write committed
\* while it ran, every row was returned on exactly one page, the rows of a
\* language with state are installed and the others are not; the pass ends
\* at the first empty page, and with an error when ListEntries fails.
C33_PreloadInstallsEveryRow ==
    /\ plPc = "done" =>
          \A i \in 1..Len(plTable) :
             LET row == plTable[i] IN
             /\ TimesReturned(row.Entry) = 1
             /\ IF row.Language \in SupportedLanguages
                THEN TrieHas(plState.phrases[row.Language], row.Entry)
                ELSE \A l \in SupportedLanguages : ~TrieHas(plState.phrases[l], row.Entry)
    /\ plPc = "done" => plOffset >= Len(plTable)

----------------------------------------------------------------------------
(* The phrases of one Letter token *)

\* Positions of the Letter tokens that the buffer holds when token e is the
\* newest one: those among the last PhraseLength * WindowFactor tokens.
LettersInBuffer(e) == {i \in LettersUpTo(e) : i > e - PhraseLength * WindowFactor}

\* The consumer took every phrase yielded for token e.
TakenInFull(e) == \A j \in DOMAIN CallsFor(e) : CallsFor(e)[j].ret

\* C34: each time a Letter token is read, PhraseIterator yields one phrase
\* for each of the most recent Letter tokens in the buffer of the last
\* 4 * PhraseLength tokens, up to PhraseLength of them: min(PhraseLength,
\* Letter tokens in the buffer) phrases, the j-th being all tokens from the
\* j-th Letter token leftward through the current one; none is skipped or
\* yielded twice, before and after the buffer wraps.
C34_OnePhrasePerBufferedWord ==
    \A e \in 1..itPos :
        (itText[e].Type = "Letter" /\ TakenInFull(e)) =>
            LET ys == CallsFor(e)
                n  == Min({PhraseLength, Cardinality(LettersInBuffer(e))})
            IN /\ Len(ys) = n
               /\ \A j \in 1..n : ys[j].phrase = Piece(LetterBack(e, j), e)
               /\ \A j, k \in 1..n : j # k => ys[j].phrase # ys[k].phrase

\* The buffer has wrapped and holds fewer Letter tokens than the text has:
\* the newest word has a phrase for each of the two words in the buffer, the
\* longer one across the end of the buffer, and none for the word that has
\* left it.
C34_Witness ==
    /\ itPos > PhraseLength * WindowFactor
    /\ itText[itPos].Type = "Letter"
    /\ TakenInFull(itPos)
    /\ Cardinality(LettersUpTo(itPos)) >= PhraseLength
    /\ Cardinality(LettersInBuffer(itPos)) = 2
    /\ Len(CallsFor(itPos)) = 2
    /\ LET words == FillWords(itRing, Len(itRing.window) - 1, <<>>, PhraseLength)
       IN words[2] > words[1]

----------------------------------------------------------------------------
(* From the connection to handleEntryUpdate *)

\* The notifications the connection has delivered or holds, oldest first:
\* those handled, those in a.entryUpdates, the one in each goroutine's hands
\* and those WaitForNotification has not returned yet.
InFlight ==
    handled \o queued
            \o (IF g2Got = 0 THEN <<>> ELSE <<g2Got>>)
            \o (IF g1Got = 0 THEN <<>> ELSE <<g1Got>>)
            \o pending

\* Run has been stopped: the context of the tasks is cancelled, a goroutine
\* of the listener has returned, or the updater has returned.
RunStopped == grpDone \/ gDone \/ upd = "done" \/ lst = "returned"

\* C35: every notification the listener receives is handed to the updater
\* and handled exactly once, in the order received; those that arrive while
\* the preload runs are handled after it; a.entryUpdates never holds more
\* than 16, and the listener waits at a full channel instead of dropping;
\* as long as Run is not stopped, what was received is handled in the end.
C35_NotificationsInOrderOnce ==
    /\ [](InFlight = [i \in 1..nNotified |-> i])
    /\ [](Len(queued) <= EntryUpdatesCap)
    /\ [](upd = "preload" => handled = <<>>)
    /\ []<>(RunStopped \/ Len(handled) = nNotified)

\* The preload is still running, a.entryUpdates holds 16 notifications, the
\* second goroutine waits at its send with the 17th and the first with the
\* 18th, and the connection holds the 19th.
C35_Witness ==
    /\ upd = "preload"
    /\ ~RunStopped
    /\ Len(queued) = EntryUpdatesCap
    /\ g2 = "send" /\ g2Got = EntryUpdatesCap + 1
    /\ g1 = "send" /\ g1Got = EntryUpdatesCap + 2
    /\ pending = <<EntryUpdatesCap + 3>>

----------------------------------------------------------------------------
(* RemovePhrase of a text without phrase *)

\* C36: RemovePhrase of a text that is not a key of the valid trie leaves
\* both tries and the word set of the base checker as they were.
C36_RemoveUnknownIsNoOp ==
    (last.op = "RemovePhrase" /\ ~TrieHas(last.pre.trie, last.text)) =>
        State = last.pre

\* RemovePhrase was called with a word of the dictionary that has no phrase
\* but is a key of the mistake trie, while the valid trie holds a phrase.
C36_Witness ==
    /\ last.op = "RemovePhrase"
    /\ ~TrieHas(last.pre.trie, last.text)
    /\ TrieHas(last.pre.mistakeTrie, last.text)
    /\ last.text \in BaseDictionary
    /\ last.pre.trie # EmptyTrie

----------------------------------------------------------------------------
(* The order of LISTEN and the preload *)

\* The preload has read the table and LISTEN has not been executed.
ReadButNotListening ==
    (updater = "running" \/ updOffset > 0) /\ listener = "init"

\* preloadEntries gets the result of a ListEntries query.
ReadsPage ==
    updater = "preload" /\ (updater' = "running" \/ updOffset' # updOffset)

\* C37: LISTEN entry_update is in effect before preloadEntries reads a page
\* of the table, so that no write commits between the read of the preload
\* and the start of listening.
C37_ListensBeforePreload ==
    [][ /\ ReadsPage => listener = "listening"
        /\ ReadButNotListening => rows' = rows ]_vars

----------------------------------------------------------------------------
(* The words of the base pass *)

\* The texts of the Letter tokens of a text.
WordsOf(text) == {t.Text : t \in {u \in Range(Tokens(text)) : u.Type = "Letter"}}

\* The entries Check appends in its second pass, after those of the overlay.
BaseEntries(st, text, res) ==
    SubSeq(res, Len(CheckOverlay(st, text, TRUE).entries) + 1, Len(res))

\* C38: every entry that Check emits from the pass over the base checker
\* has the text of a Letter token of the input.
C38_BaseEntriesAreInputWords ==
    (last.op = "Check" /\ last.text # <<>>) =>
        \A e \in Range(BaseEntries(State, last.text, last.res)) :
            e.Text \in WordsOf(last.text)

----------------------------------------------------------------------------
(* The words of the dictionary files *)

\* C39: after any sequence of AddPhrase and RemovePhrase, every word that
\* the dictionary accepted before the first of them, and that no installed
\* phrase has as its text or as a correct form, is still accepted.
C39_DictionaryWordsStayAccepted ==
    \A w \in BaseDictionary :
        ~TrieHas(trie, w) => HunspellSpell(hunspell, w)

----------------------------------------------------------------------------
(* No deadlock among the calls of one Spellcheck *)

\* The calls that have started and not returned.
CallsInProgress == {g \in LockCallers : lkAt[g].pc \notin {"idle", "done"}}

Holds(g) ==
    (IF g \in lkM.readers \cup lkM.writer THEN {"s.m"} ELSE {})
    \cup (IF g \in lkCM THEN {"c.m"} ELSE {})
    \cup (IF g \in lkBufs THEN {"buffer"} ELSE {})

\* What a call holds at each place.  A call that waits for s.m or for a
\* buffer holds nothing (s.m is not held by the writer that has announced
\* itself and waits for the readers, nor by the readers it blocks); a call that waits for c.m holds at most s.m as the
\* writer, or a buffer; the call that holds c.m waits for nothing; the
\* readers of s.m wait for nothing.
LocksHeldInOrder ==
    /\ \A g \in LockCallers :
          LET pc == lkAt[g].pc IN
          /\ pc \in {"idle", "done", "RLock", "RLockWait", "Lock", "LockWait", "Acquire"}
                => Holds(g) = {}
          /\ pc = "RLockWait" <=> g \in lkM.blocked
          /\ pc = "LockWait" <=> g \in lkM.pending
          /\ pc = "read" => Holds(g) = {"s.m"} /\ g \in lkM.readers
          /\ pc \in {"mutate", "Unlock"} => Holds(g) = {"s.m"} /\ g \in lkM.writer
          /\ pc = "Release" => Holds(g) = {"buffer"}
          /\ pc = "cmLock" =>
                /\ "c.m" \notin Holds(g)
                /\ g \notin lkM.readers
                /\ g \in lkM.writer <=> MethodOf(g) \in WriteMethods
          /\ pc = "native" =>
                /\ "c.m" \in Holds(g)
                /\ g \notin lkM.readers
                /\ g \in lkM.writer <=> MethodOf(g) \in WriteMethods
    /\ Cardinality(lkCM) <= 1
    /\ Cardinality(lkM.writer \cup lkM.pending) <= 1
    /\ lkM.readers = {} \/ lkM.writer = {}
    /\ lkM.blocked # {} => lkM.writer \cup lkM.pending # {}
    /\ Cardinality(lkBufs) <= PoolMaxSize

\* C40: concurrent calls of Check, Suggestions, AddPhrase and RemovePhrase
\* never deadlock: s.m is taken before c.m, or c.m alone; while a call is in
\* progress some call can take a step, and every call that has started
\* returns.
C40_NoDeadlock ==
    /\ [](LocksHeldInOrder /\ (CallsInProgress # {} => ENABLED LockStep))
    /\ []<>(CallsInProgress = {})

\* AddPhrase holds s.m and waits for c.m with a second call of the Checker
\* to make after this one; a Check that holds a buffer is in the library;
\* the other Check and Suggestions are blocked in RLock and RemovePhrase
\* waits in Lock for AddPhrase.
C40_Witness ==
    /\ lkAt[<<"AddPhrase", 1>>] = [pc |-> "cmLock", left |-> 2]
    /\ lkAt[<<"Check", 1>>].pc = "native" /\ <<"Check", 1>> \in lkBufs
    /\ lkAt[<<"Check", 2>>].pc = "RLockWait"
    /\ lkAt[<<"Suggestions", 1>>].pc = "RLockWait"
    /\ lkAt[<<"RemovePhrase", 1>>].pc = "Lock"

====
